---------------------------- MODULE Spec2Model ----------------------------
(***************************************************************************)
(* A model of the trade-decision engine of psuriset/algo: the position     *)
(* sizer, the portfolio-risk ledger, the execution manager, the entry gate *)
(* pipeline of TradingEngine.run_entry_gates and the control loop of       *)
(* run_alpaca_loop.main.                                                   *)
(*                                                                         *)
(* Python floats are modelled as exact rationals [n |-> Int, d |-> Nat]    *)
(* in lowest terms (d > 0).  Percentages, prices and equity keep the units *)
(* of the code (0.5 is R(1, 2)).  An absent number or dict is None, an     *)
(* absent string is NoneStr, an absent date is the empty tuple (a date d   *)
(* is the day number d, held as <<d>> where it may be absent).             *)
(***************************************************************************)
EXTENDS Integers, Sequences, FiniteSets, TLC

VARIABLES
    config,          \* the configuration the components were built from
    portfolio_risk,  \* TradingEngineState.portfolio_risk (PortfolioRiskState)
    execution,       \* TradingEngineState.execution (ExecutionState)
    pdt,             \* TradingEngineState.pdt (PDTState)
    broker,          \* the broker account: equity, positions, submitted orders
    tracker,         \* the tracked positions of data/positions_tracked.json
    loop,            \* the control loop: its clock, whether it still runs
    inp,             \* the arguments of the call under study
    call             \* the last call made: its name, arguments and result

vars == <<config, portfolio_risk, execution, pdt, broker, tracker, loop, inp, call>>

-----------------------------------------------------------------------------
(* Rational arithmetic: the float operations the code uses.                *)

None == [none |-> TRUE]
NoneStr == "None"

Abs(x) == IF x < 0 THEN -x ELSE x

RECURSIVE GCD(_, _)
GCD(a, b) == IF b = 0 THEN a ELSE GCD(b, a % b)

\* The rational n/d (d > 0) in lowest terms.
R(n, d) ==
    LET g == GCD(Abs(n), d)
    IN  [n |-> n \div g, d |-> d \div g]

Zero == R(0, 1)

RAdd(a, b) == R(a.n * b.d + b.n * a.d, a.d * b.d)
RSub(a, b) == R(a.n * b.d - b.n * a.d, a.d * b.d)
RMul(a, b) == R(a.n * b.n, a.d * b.d)
\* a / b for b # 0
RDiv(a, b) ==
    IF b.n > 0 THEN R(a.n * b.d, a.d * b.n) ELSE R(-(a.n * b.d), a.d * (-b.n))
RLt(a, b) == a.n * b.d < b.n * a.d
RLe(a, b) == a.n * b.d <= b.n * a.d
RGt(a, b) == RLt(b, a)
RGe(a, b) == RLe(b, a)
RMax(a, b) == IF RLt(a, b) THEN b ELSE a
RFromInt(i) == R(i, 1)
\* Python's int(x): truncation toward zero.
RInt(a) == IF a.n >= 0 THEN a.n \div a.d ELSE -((-a.n) \div a.d)
\* Python's round(x, 2): to the nearest hundredth, ties to even.
RRound2(a) ==
    LET p == a.n * 100
        f == p \div a.d
        r == p - f * a.d
        k == IF 2 * r < a.d THEN f
             ELSE IF 2 * r > a.d THEN f + 1
             ELSE IF f % 2 = 0 THEN f ELSE f + 1
    IN  R(k, 100)

\* dict.get(key, default)
Get(dict, key, default) == IF key \in DOMAIN dict THEN dict[key] ELSE default

Hundred == R(100, 1)

-----------------------------------------------------------------------------
(* Position sizing: src/src/position_sizing.py                             *)

PositionSizingResult(shares, notional, risk_amount, risk_pct, reject_reason) ==
    [shares |-> shares, notional |-> notional, risk_amount |-> risk_amount,
     risk_pct |-> risk_pct, reject_reason |-> reject_reason]

Rejected(reason) == PositionSizingResult(0, Zero, Zero, Zero, reason)

\* Variant of shares_by_risk: rounds the share count up instead of down.
shares_by_risk_RoundsUp(risk_amount, risk_per_share) ==
    RInt(RDiv(risk_amount, risk_per_share)) + 1

\* Line 68: the share count the risk budget buys (risk_per_share > 0).
shares_by_risk(risk_amount, risk_per_share) == RInt(RDiv(risk_amount, risk_per_share))

\* Lines 78-97: the symbol exposure cap.  Yields the sizing before the
\* high-volatility step, or a rejection.
ExposureCap(account_equity, price, risk_amount, risk_per_share, by_risk) ==
    LET max_notional ==
            RMul(account_equity, RDiv(config.max_exposure_per_symbol_pct, Hundred))
        notional_by_risk == RMul(RFromInt(by_risk), price)
    IN  IF RGt(notional_by_risk, max_notional)
        THEN LET shares == RInt(RDiv(max_notional, price))
                 capped_risk == RMul(RFromInt(shares), risk_per_share)
             IN  IF shares <= 0
                 THEN Rejected("exposure cap yields zero shares")
                 ELSE PositionSizingResult(shares, max_notional, capped_risk,
                          RMul(RDiv(capped_risk, account_equity), Hundred), NoneStr)
        ELSE PositionSizingResult(by_risk, notional_by_risk, risk_amount,
                 config.risk_per_trade_pct, NoneStr)

\* Variant of HighVolReduction: drops the max(1, ...) floor of line 105.
HighVolReduction_NoFloor(s, account_equity, price, risk_per_share, atr_pct) ==
    IF /\ config.high_vol_enabled
       /\ atr_pct # None
       /\ RGt(atr_pct, config.high_vol_atr_threshold)
    THEN LET shares == RInt(RMul(RFromInt(s.shares), config.high_vol_size_multiplier))
             risk_amount == RMul(RFromInt(shares), risk_per_share)
         IN  PositionSizingResult(shares, RMul(RFromInt(shares), price), risk_amount,
                 RMul(RDiv(risk_amount, account_equity), Hundred), NoneStr)
    ELSE s

\* Lines 99-108: position size reduction in a high-volatility regime.
HighVolReduction(s, account_equity, price, risk_per_share, atr_pct) ==
    IF /\ config.high_vol_enabled
       /\ atr_pct # None
       /\ RGt(atr_pct, config.high_vol_atr_threshold)
    THEN LET int_shares == RInt(RMul(RFromInt(s.shares), config.high_vol_size_multiplier))
             shares == IF int_shares > 1 THEN int_shares ELSE 1
             risk_amount == RMul(RFromInt(shares), risk_per_share)
         IN  PositionSizingResult(shares, RMul(RFromInt(shares), price), risk_amount,
                 RMul(RDiv(risk_amount, account_equity), Hundred), NoneStr)
    ELSE s

\* Variant of SectorCap: a symbol without a sector is charged to no sector
\* instead of to "unknown".
SectorCap_NoUnknown(s, account_equity, symbol, sector_exposure_pct, symbol_sector) ==
    LET exposure_pct == RMul(RDiv(s.notional, account_equity), Hundred)
        current_sector_pct ==
            IF symbol_sector # None /\ symbol \in DOMAIN symbol_sector
            THEN Get(sector_exposure_pct, symbol_sector[symbol], Zero)
            ELSE Zero
    IN  IF RGt(RAdd(current_sector_pct, exposure_pct), config.max_exposure_per_sector_pct)
        THEN Rejected("sector would exceed cap")
        ELSE s

\* Lines 110-128: the sector exposure cap and the accepted result.
SectorCap(s, account_equity, symbol, sector_exposure_pct, symbol_sector) ==
    LET exposure_pct == RMul(RDiv(s.notional, account_equity), Hundred)
        sector == Get(IF symbol_sector = None THEN <<>> ELSE symbol_sector,
                      symbol, "unknown")
        current_sector_pct == Get(sector_exposure_pct, sector, Zero)
    IN  IF RGt(RAdd(current_sector_pct, exposure_pct), config.max_exposure_per_sector_pct)
        THEN Rejected("sector would exceed cap")
        ELSE s

\* PositionSizer.size_position
size_position(account_equity, price, stop_distance_pct, symbol, current_positions, sector_exposure_pct, symbol_sector, atr_pct) ==
    LET risk_amount == RMul(account_equity, RDiv(config.risk_per_trade_pct, Hundred))
        risk_per_share == RMul(price, RDiv(stop_distance_pct, Hundred))
    IN  IF RLe(stop_distance_pct, Zero)
        THEN Rejected("invalid stop_distance_pct")
        ELSE IF RLe(risk_per_share, Zero)
        THEN Rejected("risk_per_share <= 0")
        ELSE LET by_risk == shares_by_risk(risk_amount, risk_per_share)
             IN  IF by_risk <= 0
                 THEN Rejected("shares <= 0 (risk too small vs stop)")
                 ELSE LET capped == ExposureCap(account_equity, price, risk_amount,
                                                risk_per_share, by_risk)
                      IN  IF capped.reject_reason # NoneStr
                          THEN capped
                          ELSE SectorCap(
                                   HighVolReduction(capped, account_equity, price,
                                                    risk_per_share, atr_pct),
                                   account_equity, symbol, sector_exposure_pct,
                                   symbol_sector)

RECURSIVE SumOpenRisk(_, _, _)
\* Lines 138-141: the sum over the (notional, stop_pct) pairs of the
\* positions held under the symbols of keys.
SumOpenRisk(positions, keys, account_equity) ==
    IF keys = {} THEN Zero
    ELSE LET k == CHOOSE x \in keys : TRUE
             notional == Get(positions[k], "notional", Zero)
             stop_pct == Get(positions[k], "stop_pct", Zero)
         IN  RAdd(RMul(RDiv(RMul(notional, RDiv(stop_pct, Hundred)), account_equity),
                       Hundred),
                  SumOpenRisk(positions, keys \ {k}, account_equity))

\* PositionSizer.total_open_risk_pct, on the positions dict whose values
\* run_entry_gates turns into (notional, stop_pct) pairs (lines 143-146).
total_open_risk_pct(account_equity, positions) ==
    IF RLe(account_equity, Zero) THEN Zero
    ELSE SumOpenRisk(positions, DOMAIN positions, account_equity)

\* PositionSizer.would_exceed_max_open_risk
would_exceed_max_open_risk(account_equity, current_open_risk_pct, new_trade_risk_pct) ==
    RGt(RAdd(current_open_risk_pct, new_trade_risk_pct), config.max_open_risk_pct)

-----------------------------------------------------------------------------
(* Calendar, universe and market quality: src/src/universe.py              *)
(* A datetime is [date |-> day number, time |-> minutes since midnight].   *)

\* Variant of _in_window: the end of a window belongs to it.
_in_window_ClosedEnd(t, w) ==
    IF w.start <= w.end
    THEN w.start <= t /\ t <= w.end
    ELSE t >= w.start \/ t <= w.end

\* MarketCalendar._in_window
_in_window(t, w) ==
    IF w.start <= w.end
    THEN w.start <= t /\ t < w.end
    ELSE t >= w.start \/ t < w.end

\* MarketCalendar.get_session_at
get_session_at(dt) ==
    IF dt.date \in config.holidays THEN "closed"
    ELSE IF _in_window(dt.time, config.pre_market) THEN "pre_market"
    ELSE IF _in_window(dt.time, config.regular) THEN "regular"
    ELSE IF _in_window(dt.time, config.after_hours) THEN "after_hours"
    ELSE "closed"

\* MarketCalendar.is_trading_allowed
is_trading_allowed(dt) ==
    LET session == get_session_at(dt)
    IN  IF session = "closed" THEN FALSE ELSE config[session].trade_allowed

\* UniverseFilter.is_eligible, as run_entry_gates calls it (no liquidity
\* metrics supplied).
is_eligible(symbol) == \E i \in 1..Len(config.symbols) : config.symbols[i] = symbol

\* A gate's verdict: (allowed, reason); a reason is the sequence of the
\* words of the message, its numbers left out.
Verdict(allowed, reason) == [allowed |-> allowed, reason |-> reason]
Ok == Verdict(TRUE, <<"ok">>)

\* MarketQualityGate.check
market_quality_check(spread_pct, volume_atr_ratio, current_atr_multiple) ==
    IF spread_pct # None /\ RGt(spread_pct, config.mq_max_spread_pct)
    THEN Verdict(FALSE, <<"spread", "> max">>)
    ELSE IF /\ volume_atr_ratio # None
            /\ RLt(volume_atr_ratio, config.min_volume_atr_ratio)
    THEN Verdict(FALSE, <<"volume/ATR", "< min">>)
    ELSE IF /\ config.block_on_news_spike
            /\ current_atr_multiple # None
            /\ RGe(current_atr_multiple, config.news_volatility_spike_atr_multiple)
    THEN Verdict(FALSE, <<"volatility spike: ATR multiple">>)
    ELSE Ok

-----------------------------------------------------------------------------
(* Trade filters: src/src/trade_filters.py                                 *)

\* str.upper() on the symbols of the model
Upper(symbol) ==
    IF symbol = "spy" THEN "SPY" ELSE IF symbol = "qqq" THEN "QQQ" ELSE symbol

\* MacroEventBlackout.check
macro_blackout_check(dt) ==
    IF ~config.macro_enabled THEN Ok
    ELSE IF dt.date \in config.blackout_dates
    THEN Verdict(FALSE, <<"macro blackout date">>)
    ELSE IF \E i \in 1..Len(config.blackout_windows) :
                LET w == config.blackout_windows[i]
                IN  /\ dt.date = w.date
                    /\ IF w.start <= w.end
                       THEN w.start <= dt.time /\ dt.time < w.end
                       ELSE dt.time >= w.start \/ dt.time < w.end
    THEN Verdict(FALSE, <<"macro blackout window">>)
    ELSE Ok

\* EarningsBlackout.check
earnings_blackout_check(symbol, dt) ==
    IF ~config.earnings_enabled THEN Ok
    ELSE IF \E ed \in Get(config.earnings_dates, Upper(symbol), {}) :
                /\ ed - config.days_before <= dt.date
                /\ dt.date <= ed + config.days_after
    THEN Verdict(FALSE, <<"earnings blackout", symbol, "around">>)
    ELSE Ok

\* VolatilityDoNotTrade.check
volatility_dnt_check(atr_pct, spread_pct) ==
    IF ~config.dnt_enabled THEN Ok
    ELSE IF atr_pct # None /\ RGt(atr_pct, config.dnt_max_atr_pct)
    THEN Verdict(FALSE, <<"volatility DNT: ATR%">>)
    ELSE IF spread_pct # None /\ RGt(spread_pct, config.dnt_max_spread_pct)
    THEN Verdict(FALSE, <<"volatility DNT: spread">>)
    ELSE Ok

-----------------------------------------------------------------------------
(* Portfolio-risk ledger: src/src/portfolio_risk.py                        *)

\* Variant of pr_update_equity: the peak follows the last equity.
pr_update_equity_PeakIsLast(state, dt, equity) ==
    [state EXCEPT !.equity_curve = Append(@, <<dt, equity>>),
                  !.peak_equity = equity]

\* PortfolioRiskManager.update_equity
pr_update_equity(state, dt, equity) ==
    [state EXCEPT !.equity_curve = Append(@, <<dt, equity>>),
                  !.peak_equity = IF RGt(equity, @) THEN equity ELSE @]

\* PortfolioRiskManager.current_drawdown_pct
current_drawdown_pct(state, current_equity) ==
    IF RLe(state.peak_equity, Zero) THEN Zero
    ELSE RMul(RDiv(RSub(current_equity, state.peak_equity), state.peak_equity),
              Hundred)

\* Variant of check_daily_reset: resets on every call.
check_daily_reset_Always(state, today) ==
    [state EXCEPT !.daily_pnl_pct = Zero,
                  !.daily_trade_count = 0,
                  !.daily_trades_per_symbol = <<>>,
                  !.trading_stopped_for_day = FALSE,
                  !.last_trade_date = <<today>>]

\* PortfolioRiskManager.check_daily_reset
check_daily_reset(state, today) ==
    IF state.last_trade_date # <<today>>
    THEN [state EXCEPT !.daily_pnl_pct = Zero,
                       !.daily_trade_count = 0,
                       !.daily_trades_per_symbol = <<>>,
                       !.trading_stopped_for_day = FALSE,
                       !.last_trade_date = <<today>>]
    ELSE state

\* The outcome of can_trade: (allowed, reason) and the state it leaves.
Outcome(allowed, reason, state) ==
    [allowed |-> allowed, reason |-> reason, state |-> state]

\* Variant of can_trade_checks: the drawdown is checked before the daily loss.
can_trade_checks_DrawdownFirst(state, current_equity, symbol) ==
    LET dd == current_drawdown_pct(state, current_equity)
    IN  IF state.safe_mode /\ RLe(dd, config.recovery_criteria_pct)
        THEN Outcome(FALSE, <<"safe_mode: drawdown", "not yet recovered to">>, state)
        ELSE IF state.trading_stopped_for_day
        THEN Outcome(FALSE, <<"daily loss limit hit; trading stopped for the day">>,
                     state)
        ELSE IF RLe(dd, config.max_drawdown_pct) /\ config.safe_mode_after_max_dd
        THEN Outcome(FALSE, <<"max drawdown", "hit; entering safe mode">>,
                     [state EXCEPT !.safe_mode = TRUE])
        ELSE IF RLe(state.daily_pnl_pct, config.daily_loss_limit_pct)
        THEN Outcome(FALSE, <<"daily loss limit", "hit">>,
                     [state EXCEPT !.trading_stopped_for_day = TRUE])
        ELSE IF state.daily_trade_count >= config.max_trades_per_day
        THEN Outcome(FALSE, <<"max trades per day", "reached">>, state)
        ELSE IF Get(state.daily_trades_per_symbol, symbol, 0)
                    >= config.max_trades_per_symbol_per_day
        THEN Outcome(FALSE, <<"max trades per symbol per day", "for", symbol>>, state)
        ELSE Outcome(TRUE, <<"ok">>, state)


\* Variant of can_trade_checks: the recovery comparison of line 69 is strict.
can_trade_checks_StrictRecovery(state, current_equity, symbol) ==
    LET dd == current_drawdown_pct(state, current_equity)
    IN  IF state.safe_mode /\ RLt(dd, config.recovery_criteria_pct)
        THEN Outcome(FALSE, <<"safe_mode: drawdown", "not yet recovered to">>, state)
        ELSE IF state.trading_stopped_for_day
        THEN Outcome(FALSE, <<"daily loss limit hit; trading stopped for the day">>,
                     state)
        ELSE IF RLe(state.daily_pnl_pct, config.daily_loss_limit_pct)
        THEN Outcome(FALSE, <<"daily loss limit", "hit">>,
                     [state EXCEPT !.trading_stopped_for_day = TRUE])
        ELSE IF RLe(dd, config.max_drawdown_pct) /\ config.safe_mode_after_max_dd
        THEN Outcome(FALSE, <<"max drawdown", "hit; entering safe mode">>,
                     [state EXCEPT !.safe_mode = TRUE])
        ELSE IF state.daily_trade_count >= config.max_trades_per_day
        THEN Outcome(FALSE, <<"max trades per day", "reached">>, state)
        ELSE IF Get(state.daily_trades_per_symbol, symbol, 0)
                    >= config.max_trades_per_symbol_per_day
        THEN Outcome(FALSE, <<"max trades per symbol per day", "for", symbol>>, state)
        ELSE Outcome(TRUE, <<"ok">>, state)

\* PortfolioRiskManager.can_trade, lines 67-92, on the state that
\* check_daily_reset left.
can_trade_checks(state, current_equity, symbol) ==
    LET dd == current_drawdown_pct(state, current_equity)
    IN  IF state.safe_mode /\ RLe(dd, config.recovery_criteria_pct)
        THEN Outcome(FALSE, <<"safe_mode: drawdown", "not yet recovered to">>, state)
        ELSE IF state.trading_stopped_for_day
        THEN Outcome(FALSE, <<"daily loss limit hit; trading stopped for the day">>,
                     state)
        ELSE IF RLe(state.daily_pnl_pct, config.daily_loss_limit_pct)
        THEN Outcome(FALSE, <<"daily loss limit", "hit">>,
                     [state EXCEPT !.trading_stopped_for_day = TRUE])
        ELSE IF RLe(dd, config.max_drawdown_pct) /\ config.safe_mode_after_max_dd
        THEN Outcome(FALSE, <<"max drawdown", "hit; entering safe mode">>,
                     [state EXCEPT !.safe_mode = TRUE])
        ELSE IF state.daily_trade_count >= config.max_trades_per_day
        THEN Outcome(FALSE, <<"max trades per day", "reached">>, state)
        ELSE IF Get(state.daily_trades_per_symbol, symbol, 0)
                    >= config.max_trades_per_symbol_per_day
        THEN Outcome(FALSE, <<"max trades per symbol per day", "for", symbol>>, state)
        ELSE Outcome(TRUE, <<"ok">>, state)

\* PortfolioRiskManager.can_trade
can_trade(state, current_equity, symbol, today) ==
    can_trade_checks(check_daily_reset(state, today), current_equity, symbol)

\* Variant of record_trade: a recorded trade re-opens the day.
record_trade_Reopens(state, symbol, pnl_pct) ==
    [state EXCEPT
        !.daily_trade_count = @ + 1,
        !.daily_trades_per_symbol =
            [k \in DOMAIN @ \cup {symbol} |-> Get(@, k, 0) + (IF k = symbol THEN 1 ELSE 0)],
        !.daily_pnl_pct = RAdd(@, pnl_pct),
        !.trading_stopped_for_day = FALSE]

\* PortfolioRiskManager.record_trade
record_trade(state, symbol, pnl_pct) ==
    [state EXCEPT
        !.daily_trade_count = @ + 1,
        !.daily_trades_per_symbol =
            [k \in DOMAIN @ \cup {symbol} |-> Get(@, k, 0) + (IF k = symbol THEN 1 ELSE 0)],
        !.daily_pnl_pct = RAdd(@, pnl_pct)]

-----------------------------------------------------------------------------
(* Compliance: src/src/compliance.py                                       *)

\* Variant of recent_day_trades: the cutoff day itself is outside the window.
recent_day_trades_AfterCutoff(state, trade_date) ==
    LET cutoff == trade_date - 7
    IN  SelectSeq(state.day_trade_dates, LAMBDA d : d > cutoff)

\* Lines 46-49: the day trades of the rolling window.
recent_day_trades(state, trade_date) ==
    LET cutoff == trade_date - 7
    IN  SelectSeq(state.day_trade_dates, LAMBDA d : d >= cutoff)

\* ComplianceManager.can_day_trade
can_day_trade(state, trade_date) ==
    IF ~config.pdt_enabled \/ ~config.margin_account
    THEN Verdict(TRUE, <<"PDT not applicable">>)
    ELSE IF RGe(state.equity, config.pdt_min_equity)
    THEN Verdict(TRUE, <<"equity above PDT threshold">>)
    ELSE IF Len(recent_day_trades(state, trade_date)) >= 3
    THEN Verdict(FALSE, <<"PDT: equity", "<", "day trade limit",
                          "in rolling 5 business days reached">>)
    ELSE Ok

\* Variant of record_day_trade: only the last two dates are kept.
record_day_trade_KeepsTwo(state, trade_date) ==
    LET dates == Append(state.day_trade_dates, trade_date)
    IN  [state EXCEPT !.day_trade_dates =
            IF Len(dates) > 2 THEN SubSeq(dates, Len(dates) - 1, Len(dates))
            ELSE dates]


\* ComplianceManager.record_day_trade
record_day_trade(state, trade_date) ==
    LET dates == Append(state.day_trade_dates, trade_date)
    IN  [state EXCEPT !.day_trade_dates =
            IF Len(dates) > 20 THEN SubSeq(dates, Len(dates) - 19, Len(dates))
            ELSE dates]

\* ComplianceManager.update_equity
pdt_update_equity(state, equity) == [state EXCEPT !.equity = equity]

-----------------------------------------------------------------------------
(* Execution: src/src/execution.py                                         *)

\* ExecutionManager.can_trade_spread
can_trade_spread(spread_pct) ==
    IF RGt(spread_pct, config.max_spread_pct_to_trade)
    THEN Verdict(FALSE, <<"spread", "> max">>)
    ELSE Ok

OrderRequest(symbol, side, quantity, order_type, limit_price, expected_price) ==
    [symbol |-> symbol, side |-> side, quantity |-> quantity,
     order_type |-> order_type, limit_price |-> limit_price,
     expected_price |-> expected_price]

\* Variant of build_order: every order that is not a sell is priced as a
\* buy, below the mid.
build_order_BelowMid(symbol, side, quantity, mid_price, spread_pct, tick_size) ==
    IF ~can_trade_spread(spread_pct).allowed THEN None
    ELSE IF config.prefer_limit_orders
    THEN LET offset == RMul(RFromInt(config.limit_order_offset_ticks), tick_size)
             limit_price == IF side # "sell"
                            THEN RRound2(RSub(mid_price, offset))
                            ELSE RRound2(RAdd(mid_price, offset))
         IN  OrderRequest(symbol, side, quantity, "LIMIT", limit_price, mid_price)
    ELSE OrderRequest(symbol, side, quantity, "MARKET", None, mid_price)

\* ExecutionManager.build_order
build_order(symbol, side, quantity, mid_price, spread_pct, tick_size) ==
    IF ~can_trade_spread(spread_pct).allowed THEN None
    ELSE IF config.prefer_limit_orders
    THEN LET offset == RMul(RFromInt(config.limit_order_offset_ticks), tick_size)
             limit_price == IF side = "buy"
                            THEN RRound2(RSub(mid_price, offset))
                            ELSE RRound2(RAdd(mid_price, offset))
         IN  OrderRequest(symbol, side, quantity, "LIMIT", limit_price, mid_price)
    ELSE OrderRequest(symbol, side, quantity, "MARKET", None, mid_price)

\* The default of build_order's tick_size parameter.
DefaultTick == R(1, 100)

\* Variant of slippage_bps: every fill is measured as a buy.
slippage_bps_AsBuy(side, fill_price, expected_price) ==
    IF RLe(expected_price, Zero) THEN Zero
    ELSE RMul(RDiv(RSub(fill_price, expected_price), expected_price), R(10000, 1))


\* Lines 110-116 of record_fill: the slippage of one fill, in basis points.
slippage_bps(side, fill_price, expected_price) ==
    IF RLe(expected_price, Zero) THEN Zero
    ELSE IF side = "buy"
    THEN RMul(RDiv(RSub(fill_price, expected_price), expected_price), R(10000, 1))
    ELSE RMul(RDiv(RSub(expected_price, fill_price), expected_price), R(10000, 1))

RECURSIVE SumSlippage(_)
SumSlippage(fills) ==
    IF fills = <<>> THEN Zero
    ELSE RAdd(Head(fills).slippage_bps, SumSlippage(Tail(fills)))

\* Variant of record_fill: strategy_blocked follows the running average.
record_fill_Unlatches(state, symbol, side, quantity, fill_price, expected_price) ==
    LET report == [symbol |-> symbol, side |-> side, quantity |-> quantity,
                   fill_price |-> fill_price, expected_price |-> expected_price,
                   slippage_bps |-> slippage_bps(side, fill_price, expected_price)]
        history == Append(state.fill_history, report)
        avg == RDiv(SumSlippage(history), RFromInt(Len(history)))
    IN  [state EXCEPT
            !.fill_history = history,
            !.strategy_slippage_bps_avg = avg,
            !.strategy_blocked =
                RGt(avg, config.block_strategy_if_slippage_bps_avg_exceeds)]

\* ExecutionManager.record_fill (the timestamp of the report is left out)
record_fill(state, symbol, side, quantity, fill_price, expected_price) ==
    LET report == [symbol |-> symbol, side |-> side, quantity |-> quantity,
                   fill_price |-> fill_price, expected_price |-> expected_price,
                   slippage_bps |-> slippage_bps(side, fill_price, expected_price)]
        history == Append(state.fill_history, report)
        avg == RDiv(SumSlippage(history), RFromInt(Len(history)))
    IN  [state EXCEPT
            !.fill_history = history,
            !.strategy_slippage_bps_avg = avg,
            !.strategy_blocked =
                IF RGt(avg, config.block_strategy_if_slippage_bps_avg_exceeds)
                THEN TRUE ELSE @]

\* ExecutionManager.should_block_strategy
should_block_strategy(state) == state.strategy_blocked

-----------------------------------------------------------------------------
(* Candlestick patterns: src/src/candlestick.py                            *)
(* A DataFrame is None or a sequence of bars                               *)
(* [open, high, low, close, volume]; df[Len(df)] is df.iloc[-1].           *)

_body_size(row) == LET b == RSub(row.close, row.open) IN IF RLt(b, Zero) THEN RSub(Zero, b) ELSE b
_upper_wick(row) == RSub(row.high, RMax(row.open, row.close))
_lower_wick(row) == RSub(IF RLt(row.open, row.close) THEN row.open ELSE row.close, row.low)
is_bullish_candle(row) == RGt(row.close, row.open)
is_bearish_candle(row) == RLt(row.close, row.open)

\* bullish_engulfing(df, -1)
bullish_engulfing(df) ==
    IF df = None \/ Len(df) < 2 THEN FALSE
    ELSE LET curr == df[Len(df)]
             prev == df[Len(df) - 1]
         IN  /\ is_bullish_candle(curr) /\ is_bearish_candle(prev)
             /\ RGe(curr.close, prev.open) /\ RLe(curr.open, prev.close)

\* hammer(df, -1, 2.0); _range_size is positive, so only the body decides
\* the early return.
hammer(df) ==
    IF df = None \/ Len(df) < 1 THEN FALSE
    ELSE LET row == df[Len(df)]
             body == _body_size(row)
         IN  /\ RGt(body, Zero)
             /\ is_bullish_candle(row)
             /\ RGe(_lower_wick(row), RMul(body, R(2, 1)))
             /\ RLe(_upper_wick(row), RMul(body, R(1, 2)))

\* doji_near_support(df, -1, body_ratio).  With high <= low _range_size is
\* 1e-9, and body / 1e-9 <= body_ratio holds only for a body of zero (bodies
\* are multiples of 0.001 here).
doji_near_support(df, body_ratio) ==
    IF df = None \/ Len(df) < 1 THEN FALSE
    ELSE LET row == df[Len(df)]
             body == _body_size(row)
             r == RSub(row.high, row.low)
         IN  IF RGt(r, Zero) THEN RLe(RDiv(body, r), body_ratio) ELSE body = Zero

\* detect_any(df, patterns, -1); the names are matched in lower case and an
\* unknown name matches nothing.
detect_any(df, patterns) ==
    IF patterns = <<>> \/ df = None \/ Len(df) < 1 THEN TRUE
    ELSE \E i \in 1..Len(patterns) :
            \/ patterns[i] = "bullish_engulfing" /\ bullish_engulfing(df)
            \/ patterns[i] = "hammer" /\ hammer(df)
            \/ patterns[i] = "doji" /\ doji_near_support(df, R(3, 20))

-----------------------------------------------------------------------------
(* Strategy: src/src/strategy.py                                           *)
(* NaN, PosInf and NegInf are the non-finite floats pandas computes.       *)

NaN == [nan |-> TRUE]
PosInf == [inf |-> 1]
NegInf == [inf |-> -1]
IsFinite(x) == x # NaN /\ x # PosInf /\ x # NegInf

\* numpy's float division: no exception on a zero divisor.
FDiv(a, b) ==
    IF ~IsFinite(a) \/ ~IsFinite(b) THEN NaN
    ELSE IF b = Zero
    THEN (IF RGt(a, Zero) THEN PosInf ELSE IF RLt(a, Zero) THEN NegInf ELSE NaN)
    ELSE RDiv(a, b)

\* x > y for a float x that may be non-finite and a finite y.
FGt(x, y) == IF x = NaN \/ x = NegInf THEN FALSE ELSE IF x = PosInf THEN TRUE ELSE RGt(x, y)

RAbs(a) == IF RLt(a, Zero) THEN RSub(Zero, a) ELSE a

RECURSIVE SumSeq(_)
\* The sum of a series, split in halves to keep the evaluation shallow.
SumSeq(xs) ==
    IF Len(xs) = 0 THEN Zero
    ELSE IF Len(xs) = 1 THEN xs[1]
    ELSE LET half == Len(xs) \div 2
         IN  RAdd(SumSeq(SubSeq(xs, 1, half)), SumSeq(SubSeq(xs, half + 1, Len(xs))))

\* series.rolling(window).mean().iloc[-1]: NaN with fewer than window rows.
RollingMeanLast(xs, window) ==
    IF Len(xs) < window THEN NaN
    ELSE RDiv(SumSeq(SubSeq(xs, Len(xs) - window + 1, Len(xs))), RFromInt(window))

Column(df, name) == [i \in 1..Len(df) |-> df[i][name]]

\* The true range of _atr at row i: the row maximum skips the NaN that
\* close.shift(1) leaves in the first row.  A bar whose high and low are
\* missing (NaN) has three NaN candidates, and so a NaN true range.
TrueRange(df, i) ==
    IF df[i].high = NaN THEN NaN
    ELSE LET hl == RSub(df[i].high, df[i].low)
         IN  IF i = 1 THEN hl
             ELSE RMax(hl, RMax(RAbs(RSub(df[i].high, df[i - 1].close)),
                                RAbs(RSub(df[i].low, df[i - 1].close))))

\* _atr(high, low, close, period).iloc[-1]: the mean of the true range over
\* the last period rows, NaN with fewer rows or with a NaN true range (a
\* bar without high and low) among them.
_atr_last(df, period) ==
    IF Len(df) < period THEN NaN
    ELSE IF \E i \in (Len(df) - period + 1)..Len(df) : df[i].high = NaN THEN NaN
    ELSE RDiv(SumSeq([j \in 1..period |-> TrueRange(df, Len(df) - period + j)]),
              RFromInt(period))

Raise(exception) == [raise |-> exception]
Raises(x) == "raise" \in DOMAIN x

\* TrendFollowingStrategy.atr_pct(df).iloc[-1]: the series is empty, and
\* iloc[-1] raises, when df has fewer than atr_period rows.
atr_pct_last(df) ==
    IF Len(df) = 0 \/ Len(df) < config.atr_period THEN Raise("IndexError")
    ELSE LET a == _atr_last(df, config.atr_period)
             q == FDiv(a, df[Len(df)].close)
         IN  IF IsFinite(q) THEN RMul(q, Hundred) ELSE q

EntrySignal(symbol) ==
    [symbol |-> symbol, side |-> "long", strength |-> R(1, 1),
     stop_pct |-> config.stop_loss_pct, take_profit_pct |-> config.take_profit_pct,
     time_bars_exit |-> config.time_bars_exit]

\* Line 140: abs(price - ma_f) / ma_f, NaN while ma_f is NaN.
PullbackDistance(price, ma_f) ==
    IF ~IsFinite(ma_f) THEN NaN ELSE FDiv(RAbs(RSub(price, ma_f)), ma_f)

\* Lines 149-156: the institutional volume filter.
InstitutionalVeto(df) ==
    /\ config.player_focus = "institutional"
    /\ Len(df) >= 20
    /\ LET vol == Column(df, "volume")
           avg_vol == RollingMeanLast(vol, 20)
       IN  /\ RGt(avg_vol, Zero)
           /\ RLt(RDiv(vol[Len(df)], avg_vol), config.institutional_min_volume_ratio)

\* TrendFollowingStrategy.generate_entry (the signal's metadata is left out)
generate_entry(symbol, df, spread_pct, atr_multiple_now) ==
    IF df = None \/ Len(df) < config.ma_slow THEN None
    ELSE LET close == Column(df, "close")
             atr_pct == atr_pct_last(df)
             price == close[Len(close)]
             ma_f == RollingMeanLast(close, config.ma_fast)
             ma_s == RollingMeanLast(close, config.ma_slow)
         IN  IF Raises(atr_pct) THEN atr_pct
             ELSE IF FGt(atr_pct, config.max_atr_pct_for_entry) THEN None
             ELSE IF RLe(price, ma_s) THEN None
             ELSE IF /\ config.pullback_touch_ma_fast
                     /\ FGt(PullbackDistance(price, ma_f), R(5, 1000))
             THEN None
             ELSE IF /\ spread_pct # None
                     /\ RGt(spread_pct, config.kill_switch_max_spread_pct)
             THEN None
             ELSE IF /\ atr_multiple_now # None
                     /\ RGt(atr_multiple_now, config.kill_switch_max_atr_multiple)
             THEN None
             ELSE IF InstitutionalVeto(df) THEN None
             ELSE IF /\ config.candlestick_enabled
                     /\ ~detect_any(df, config.candlestick_patterns)
             THEN None
             ELSE EntrySignal(symbol)

ExitSignal(symbol, reason) == [symbol |-> symbol, reason |-> reason]

\* Variant of check_exit: the time exit is asked before the target.
check_exit_TimeFirst(symbol, entry_price, current_price, held, spread_pct, atr_multiple) ==
    LET ret_pct == RMul(RDiv(RSub(current_price, entry_price), entry_price), Hundred)
    IN  IF RLe(ret_pct, RSub(Zero, config.stop_loss_pct))
        THEN ExitSignal(symbol, "stop_loss")
        ELSE IF held >= config.time_bars_exit
        THEN ExitSignal(symbol, "time_bars")
        ELSE IF config.take_profit_pct # Zero /\ RGe(ret_pct, config.take_profit_pct)
        THEN ExitSignal(symbol, "take_profit")
        ELSE IF spread_pct # None /\ RGt(spread_pct, config.kill_switch_max_spread_pct)
        THEN ExitSignal(symbol, "kill_switch")
        ELSE IF /\ atr_multiple # None
                /\ RGt(atr_multiple, config.kill_switch_max_atr_multiple)
        THEN ExitSignal(symbol, "kill_switch")
        ELSE None

\* TrendFollowingStrategy.check_exit (and TradingEngine.check_exit, which
\* passes its arguments on)
check_exit(symbol, entry_price, current_price, held, spread_pct, atr_multiple) ==
    LET ret_pct == RMul(RDiv(RSub(current_price, entry_price), entry_price), Hundred)
    IN  IF RLe(ret_pct, RSub(Zero, config.stop_loss_pct))
        THEN ExitSignal(symbol, "stop_loss")
        ELSE IF config.take_profit_pct # Zero /\ RGe(ret_pct, config.take_profit_pct)
        THEN ExitSignal(symbol, "take_profit")
        ELSE IF held >= config.time_bars_exit
        THEN ExitSignal(symbol, "time_bars")
        ELSE IF spread_pct # None /\ RGt(spread_pct, config.kill_switch_max_spread_pct)
        THEN ExitSignal(symbol, "kill_switch")
        ELSE IF /\ atr_multiple # None
                /\ RGt(atr_multiple, config.kill_switch_max_atr_multiple)
        THEN ExitSignal(symbol, "kill_switch")
        ELSE None

-----------------------------------------------------------------------------
(* Engine orchestrator: src/src/trading_engine.py                          *)

TradeDecision(allowed, reason, order_request, entry_signal, position_sizing) ==
    [allowed |-> allowed, reason |-> reason, order_request |-> order_request,
     entry_signal |-> entry_signal, position_sizing |-> position_sizing]

Veto(reason) == TradeDecision(FALSE, reason, None, None, None)

\* ohlcv_df["close"].iloc[-1] if ohlcv_df is not None and not ohlcv_df.empty
\* else 0.0 (lines 150 and 173)
LastClose(ohlcv_df) ==
    IF ohlcv_df # None /\ Len(ohlcv_df) > 0 THEN ohlcv_df[Len(ohlcv_df)].close ELSE Zero

\* Variant of EarlyGates: the universe gate is asked before the macro
\* blackout.
EarlyGates_UniverseFirst(state, symbol, dt, spread_pct, volume_atr_ratio, atr_multiple) ==
    LET macro == macro_blackout_check(dt)
        earnings == earnings_blackout_check(symbol, dt)
        mq == market_quality_check(spread_pct, volume_atr_ratio, atr_multiple)
        spread == can_trade_spread(spread_pct)
        vol_dnt == volatility_dnt_check(atr_multiple, spread_pct)
    IN  IF ~is_trading_allowed(dt)
        THEN Verdict(FALSE, <<"market closed or session not tradeable">>)
        ELSE IF ~is_eligible(symbol)
        THEN Verdict(FALSE, <<"symbol", symbol, "not in universe or liquidity filter">>)
        ELSE IF ~macro.allowed THEN macro
        ELSE IF ~earnings.allowed THEN earnings
        ELSE IF ~mq.allowed THEN Verdict(FALSE, <<"market_quality:">> \o mq.reason)
        ELSE IF ~spread.allowed THEN spread
        ELSE IF ~vol_dnt.allowed THEN vol_dnt
        ELSE IF should_block_strategy(state.execution)
        THEN Verdict(FALSE, <<"strategy blocked: avg slippage exceeded threshold">>)
        ELSE Ok

\* run_entry_gates, lines 89-123: the gates before portfolio risk.
EarlyGates(state, symbol, dt, spread_pct, volume_atr_ratio, atr_multiple) ==
    LET macro == macro_blackout_check(dt)
        earnings == earnings_blackout_check(symbol, dt)
        mq == market_quality_check(spread_pct, volume_atr_ratio, atr_multiple)
        spread == can_trade_spread(spread_pct)
        vol_dnt == volatility_dnt_check(atr_multiple, spread_pct)
    IN  IF ~is_trading_allowed(dt)
        THEN Verdict(FALSE, <<"market closed or session not tradeable">>)
        ELSE IF ~macro.allowed THEN macro
        ELSE IF ~is_eligible(symbol)
        THEN Verdict(FALSE, <<"symbol", symbol, "not in universe or liquidity filter">>)
        ELSE IF ~earnings.allowed THEN earnings
        ELSE IF ~mq.allowed THEN Verdict(FALSE, <<"market_quality:">> \o mq.reason)
        ELSE IF ~spread.allowed THEN spread
        ELSE IF ~vol_dnt.allowed THEN vol_dnt
        ELSE IF should_block_strategy(state.execution)
        THEN Verdict(FALSE, <<"strategy blocked: avg slippage exceeded threshold">>)
        ELSE Ok

\* run_entry_gates, lines 142-195: sizing, the open-risk check and the
\* order, for the entry signal the strategy gave.
SizeAndBuild(entry, symbol, account_equity, current_positions, sector_exposure_pct, spread_pct, atr_multiple, ohlcv_df, symbol_sector) ==
    LET open_risk_pct == total_open_risk_pct(account_equity, current_positions)
        sizing == size_position(account_equity, LastClose(ohlcv_df), entry.stop_pct,
                      symbol, current_positions, sector_exposure_pct, symbol_sector,
                      atr_multiple)
        order == build_order(symbol, entry.side, sizing.shares, LastClose(ohlcv_df),
                     spread_pct, DefaultTick)
    IN  IF sizing.reject_reason # NoneStr
        THEN TradeDecision(FALSE, <<sizing.reject_reason>>, None, entry, None)
        ELSE IF would_exceed_max_open_risk(open_risk_pct, entry.stop_pct, sizing.risk_pct)
        THEN TradeDecision(FALSE, <<"would exceed max open risk">>, None, entry, sizing)
        ELSE IF order = None
        THEN TradeDecision(FALSE, <<"execution: order build failed (spread?)">>, None,
                           entry, sizing)
        ELSE TradeDecision(TRUE, <<"ok">>, order, entry, sizing)

\* run_entry_gates, lines 134-195: the gates after portfolio risk.  An
\* exception of generate_entry leaves run_entry_gates as it is.
LateGates(state, symbol, dt, account_equity, current_positions, sector_exposure_pct, spread_pct, atr_multiple, ohlcv_df, symbol_sector) ==
    LET can_dt == can_day_trade(state.pdt, dt.date)
        entry == generate_entry(symbol, ohlcv_df, spread_pct, atr_multiple)
    IN  IF ~can_dt.allowed THEN Veto(can_dt.reason)
        ELSE IF Raises(entry) THEN entry
        ELSE IF entry = None THEN Veto(<<"no entry signal">>)
        ELSE SizeAndBuild(entry, symbol, account_equity, current_positions,
                          sector_exposure_pct, spread_pct, atr_multiple, ohlcv_df,
                          symbol_sector)

\* TradingEngineState
EngineState(pr, ex, pd) == [portfolio_risk |-> pr, execution |-> ex, pdt |-> pd]

\* TradingEngine.run_entry_gates on the engine state and the arguments a:
\* the decision (or the exception) and the engine state the call leaves.
\* Variant of run_entry_gates: can_trade is asked, and the ledger it leaves
\* is kept, before the early gates decide.
run_entry_gates_RiskFirst(state, a) ==
    LET early == EarlyGates(state, a.symbol, a.dt, a.spread_pct, a.volume_atr_ratio,
                            a.atr_multiple)
        risk == can_trade(state.portfolio_risk, a.account_equity, a.symbol, a.dt.date)
        after == [state EXCEPT !.portfolio_risk = risk.state]
    IN  IF ~early.allowed
        THEN [decision |-> Veto(early.reason), state |-> after]
        ELSE IF ~risk.allowed
        THEN [decision |-> Veto(risk.reason), state |-> after]
        ELSE [decision |-> LateGates(state, a.symbol, a.dt, a.account_equity,
                               a.current_positions, a.sector_exposure_pct,
                               a.spread_pct, a.atr_multiple, a.ohlcv_df,
                               a.symbol_sector),
              state |-> after]


run_entry_gates(state, a) ==
    LET early == EarlyGates(state, a.symbol, a.dt, a.spread_pct, a.volume_atr_ratio,
                            a.atr_multiple)
        risk == can_trade(state.portfolio_risk, a.account_equity, a.symbol, a.dt.date)
        after == [state EXCEPT !.portfolio_risk = risk.state]
    IN  IF ~early.allowed
        THEN [decision |-> Veto(early.reason), state |-> state]
        ELSE IF ~risk.allowed
        THEN [decision |-> Veto(risk.reason), state |-> after]
        ELSE [decision |-> LateGates(state, a.symbol, a.dt, a.account_equity,
                               a.current_positions, a.sector_exposure_pct,
                               a.spread_pct, a.atr_multiple, a.ohlcv_df,
                               a.symbol_sector),
              state |-> after]

\* TradingEngine.update_equity: the engine state it leaves.
engine_update_equity(state, equity, dt) ==
    [state EXCEPT
        !.portfolio_risk =
            pr_update_equity([@ EXCEPT !.peak_equity = RMax(@, equity)], dt, equity),
        !.pdt = pdt_update_equity(@, equity)]

-----------------------------------------------------------------------------
(* Broker adapter: src/src/brokers/alpaca_client.py                        *)

\* An exception: the name of its type and its message.
Exception(name, message) == [name |-> name, message |-> message]

\* Variant of IsConnectionError: every error counts as a connection error.
IsConnectionError_Any(e) == TRUE

\* _with_retry, line 75: the errors that are retried.  The names and
\* messages of the model contain the substring exactly when they equal it
\* or are listed here.
IsConnectionError(e) ==
    \/ e.name \in {"RemoteDisconnected", "ConnectionError", "ProtocolError"}
    \/ e.message = "Connection aborted"

\* str.lower() on the sides of the model
Lower(side) ==
    IF side = "BUY" THEN "buy" ELSE IF side = "SELL" THEN "sell" ELSE side

\* AlpacaBroker.submit_order: the request handed to the trading client.
submit_order(order) ==
    LET side == IF Lower(order.side) = "buy" THEN "BUY" ELSE "SELL"
    IN  IF order.order_type = "LIMIT" /\ order.limit_price # None
        THEN [request |-> "LimitOrderRequest", symbol |-> order.symbol,
              qty |-> order.quantity, side |-> side, time_in_force |-> "DAY",
              limit_price |-> order.limit_price]
        ELSE [request |-> "MarketOrderRequest", symbol |-> order.symbol,
              qty |-> order.quantity, side |-> side, time_in_force |-> "DAY",
              limit_price |-> None]

\* One submitted order as the broker holds it: the OrderRequest, the
\* request it was turned into, the day of submission and whether it filled.
Submitted(order, date) ==
    [order |-> order, request |-> submit_order(order), date |-> date,
     filled |-> FALSE]

\* AlpacaBroker.get_positions: the positions the account holds.
get_positions(account) == account.positions

-----------------------------------------------------------------------------
(* Position tracker: src/src/position_tracker.py.  The JSON document is    *)
(* the sequence of its entries in key order; entry_time is a day number.   *)

HasKey(data, key) == \E i \in 1..Len(data) : data[i].symbol = key

\* position_tracker.add
add_tracked(data, symbol, qty, entry_price, stop_pct, now) ==
    LET entry == [symbol |-> Upper(symbol), qty |-> qty, entry_price |-> entry_price,
                  entry_time |-> now, stop_pct |-> stop_pct]
    IN  IF HasKey(data, Upper(symbol))
        THEN [i \in 1..Len(data) |->
                 IF data[i].symbol = Upper(symbol) THEN entry ELSE data[i]]
        ELSE Append(data, entry)

\* Variant of remove_tracked: the key is looked up as it was given.
remove_tracked_AsGiven(data, symbol) ==
    SelectSeq(data, LAMBDA entry : entry.symbol # symbol)


\* position_tracker.remove
remove_tracked(data, symbol) ==
    SelectSeq(data, LAMBDA entry : entry.symbol # Upper(symbol))

\* position_tracker.bars_held: whole days between entry and now.
bars_held(entry_time, now) == IF now - entry_time > 0 THEN now - entry_time ELSE 0

\* tracked.get(symbol, {}).get("stop_pct", 1.5)
TrackedStop(data, symbol) ==
    IF HasKey(data, symbol)
    THEN (CHOOSE entry \in {data[i] : i \in 1..Len(data)} : entry.symbol = symbol).stop_pct
    ELSE R(3, 2)

-----------------------------------------------------------------------------
(* Control loop: src/run_alpaca_loop.py.  One pass of the while loop runs  *)
(* on the market data env the broker serves during the pass:               *)
(* env.quote[symbol] is a QuoteInfo or None, env.bars[symbol] the daily    *)
(* bars.  A pass threads the record                                        *)
(*   [engine, tracker, orders, current_positions, events, entries]         *)
(* through its steps; events and entries log what the pass did, synced is  *)
(* the tracker as reloaded at line 75, gates the current_positions each    *)
(* run_entry_gates call of the pass was given.                             *)

RECURSIVE SyncTracker_Overwrites(_, _, _, _)
\* Variant of SyncTracker: every broker position is written to the tracker.
SyncTracker_Overwrites(data, tracked, positions, now) ==
    IF positions = <<>> THEN data
    ELSE LET p == Head(positions)
             entry == IF p.qty # 0 THEN RDiv(p.cost_basis, RFromInt(p.qty)) ELSE Zero
         IN  SyncTracker_Overwrites(add_tracked(data, p.symbol, p.qty, entry, R(3, 2), now),
                                    tracked, Tail(positions), now)


RECURSIVE SyncTracker(_, _, _, _)
\* Lines 67-74: every broker position the loaded tracker lacks is added.
SyncTracker(data, tracked, positions, now) ==
    IF positions = <<>> THEN data
    ELSE LET p == Head(positions)
             entry == IF p.qty # 0 THEN RDiv(p.cost_basis, RFromInt(p.qty)) ELSE Zero
         IN  SyncTracker(IF HasKey(tracked, p.symbol) THEN data
                         ELSE add_tracked(data, p.symbol, p.qty, entry, R(3, 2), now),
                         tracked, Tail(positions), now)

\* Line 75: current_positions of the pass.
CurrentPositions(positions, tracked) ==
    [symbol \in {positions[i].symbol : i \in 1..Len(positions)} |->
        LET p == CHOOSE q \in {positions[i] : i \in 1..Len(positions)} : q.symbol = symbol
        IN  [notional |-> p.market_value, stop_pct |-> TrackedStop(tracked, symbol)]]

\* df.tail(limit) of get_bars
tail(df, limit) ==
    IF Len(df) <= limit THEN df ELSE SubSeq(df, Len(df) - limit + 1, Len(df))

\* Lines 95-102: the ATR multiple of the exit check.
ExitAtrMultiple(symbol, env) ==
    LET df == tail(env.bars[symbol], 20)
    IN  IF is_eligible(symbol) /\ Len(df) >= 14
        THEN LET q == FDiv(_atr_last(df, 14), df[Len(df)].close)
             IN  IF IsFinite(q) THEN RMul(q, Hundred) ELSE q
        ELSE None

\* The failure injected into a pass: env.fault, when the market data env
\* has one, names one operation of the pass by its phase, its symbol and
\* its name, and says whether it raises an Exception ("error": a broker
\* call that failed after its retries, a tracker file that cannot be
\* written) or whether a KeyboardInterrupt arrives when it is called
\* ("interrupt").
FaultAt(env, phase, symbol, op) ==
    IF /\ "fault" \in DOMAIN env
       /\ env.fault.phase = phase /\ env.fault.symbol = symbol /\ env.fault.op = op
    THEN env.fault.kind
    ELSE "none"

\* The operation op of the pass, called in the state acc: a
\* KeyboardInterrupt passes every except Exception clause and leaves main;
\* an Exception is caught by the try block around the operation, which
\* logs it and goes on to the next symbol, or leaves main when the
\* operation stands outside the try blocks; else the pass goes on as done.
Guard(acc, env, phase, symbol, op, caught, done) ==
    LET kind == FaultAt(env, phase, symbol, op)
        failed == [acc EXCEPT !.failed = Append(@, <<phase, symbol, op>>)]
    IN  IF kind = "interrupt" THEN [failed EXCEPT !.halt = "KeyboardInterrupt"]
        ELSE IF kind = "error"
        THEN IF caught
             THEN [failed EXCEPT !.events = Append(@, <<"error", phase, symbol>>)]
             ELSE [failed EXCEPT !.halt = "Exception"]
        ELSE done

\* Lines 81-118: the exit check of one tracked position.  The removals of
\* lines 85 and 89 stand before the try block; get_bars has a try block of
\* its own, which swallows an Exception.
ExitStep(acc, pos, positions, env, dt) ==
    LET symbol == pos.symbol
        quote == env.quote[symbol]
        atr_multiple == IF FaultAt(env, "exit", symbol, "get_bars") = "error"
                        THEN None ELSE ExitAtrMultiple(symbol, env)
        exit_signal == check_exit(symbol, pos.entry_price, quote.mid,
                           bars_held(pos.entry_time, dt.date), quote.spread_pct,
                           atr_multiple)
        sell_order == build_order(symbol, "sell", pos.qty, quote.mid,
                          quote.spread_pct, DefaultTick)
        seen == [acc EXCEPT !.seen = Append(@, <<"exit", symbol>>)]
        dropped == [seen EXCEPT !.tracker = remove_tracked(@, symbol),
                                !.events = Append(@, <<"remove_tracked", symbol>>)]
        checked == [seen EXCEPT !.events = Append(@, <<"check_exit", symbol>>)]
        unsold == [checked EXCEPT !.tracker = remove_tracked(@, symbol),
                                  !.events = Append(@, <<"remove_tracked", symbol>>)]
        submitted == [checked EXCEPT
                         !.orders = Append(@, Submitted(sell_order, dt.date)),
                         !.events = Append(@, <<"submit_order", symbol, "sell">>)]
        sold == [submitted EXCEPT !.tracker = remove_tracked(@, symbol),
                                  !.events = Append(@, <<"remove_tracked", symbol>>)]
    IN  IF acc.halt # "none" THEN acc
        ELSE IF pos.qty <= 0
        THEN Guard(seen, env, "exit", symbol, "remove_tracked", FALSE, dropped)
        ELSE IF ~\E i \in 1..Len(positions) : positions[i].symbol = symbol
        THEN Guard(seen, env, "exit", symbol, "remove_tracked", FALSE, dropped)
        ELSE Guard(seen, env, "exit", symbol, "get_latest_quote", TRUE,
                 IF quote = None THEN seen
                 ELSE IF RLe(pos.entry_price, Zero) THEN seen
                 ELSE IF /\ is_eligible(symbol)
                         /\ FaultAt(env, "exit", symbol, "get_bars") = "interrupt"
                 THEN Guard(seen, env, "exit", symbol, "get_bars", TRUE, seen)
                 ELSE IF exit_signal = None THEN checked
                 ELSE IF sell_order = None
                 THEN Guard(checked, env, "exit", symbol, "remove_tracked", TRUE, unsold)
                 ELSE Guard(checked, env, "exit", symbol, "submit_order", TRUE,
                          Guard(submitted, env, "exit", symbol, "remove_tracked", TRUE,
                                sold)))

RECURSIVE ExitPhase(_, _, _, _, _)
\* Lines 80-118: the loop over the tracked positions loaded at line 74.
ExitPhase(acc, tracked, positions, env, dt) ==
    IF tracked = <<>> THEN acc
    ELSE CHOOSE done \in {ExitPhase(next, Tail(tracked), positions, env, dt) :
                           next \in {ExitStep(acc, Head(tracked), positions, env, dt)}} :
             TRUE

\* Lines 125-128: spread and ATR multiple of the entry check.
EntryAtrMultiple(df) ==
    LET q == FDiv(_atr_last(df, 14), df[Len(df)].close)
        atr_pct == IF IsFinite(q) THEN RMul(q, Hundred) ELSE q
    IN  IF atr_pct = Zero THEN None ELSE atr_pct

\* Lines 130-141: the arguments run_entry_gates gets.
EntryArgs(acc, symbol, df, env, dt, account_equity) ==
    [symbol |-> symbol, dt |-> dt, account_equity |-> account_equity,
     current_positions |-> acc.current_positions, sector_exposure_pct |-> <<>>,
     spread_pct |-> IF env.quote[symbol] # None THEN env.quote[symbol].spread_pct
                    ELSE R(15, 100),
     volume_atr_ratio |-> R(3, 2),
     atr_multiple |-> EntryAtrMultiple(df),
     ohlcv_df |-> df, symbol_sector |-> None]

\* Lines 142-154: what the loop does with an allowed decision.
EnterPosition(acc, symbol, decision, df, env, dt, buying_power, account_equity) ==
    LET notional == IF decision.position_sizing # None
                    THEN decision.position_sizing.notional ELSE Zero
        qty_bought == IF decision.position_sizing # None
                      THEN decision.position_sizing.shares ELSE 0
        stop_pct == IF decision.entry_signal # None
                    THEN decision.entry_signal.stop_pct ELSE R(3, 2)
        held == Get(acc.current_positions, symbol, [notional |-> Zero]).notional
        submitted ==
            [acc EXCEPT
                !.orders = Append(@, Submitted(decision.order_request, dt.date)),
                !.events = Append(@, <<"submit_order", symbol, decision.order_request.side>>)]
        tracked ==
            [submitted EXCEPT
                !.tracker = add_tracked(@, symbol, qty_bought, df[Len(df)].close,
                                        stop_pct, dt.date),
                !.current_positions =
                    [k \in DOMAIN @ \cup {symbol} |->
                        IF k = symbol THEN [notional |-> notional, stop_pct |-> stop_pct]
                        ELSE @[k]],
                !.events = Append(@, <<"add_tracked", symbol>>),
                !.entries = Append(@, [symbol |-> symbol, held |-> held,
                                       notional |-> notional,
                                       account_equity |-> account_equity])]
    IN  Guard(acc, env, "entry", symbol, "get_buying_power", TRUE,
            IF RGt(notional, buying_power)
            THEN [acc EXCEPT !.events = Append(@, <<"skip", symbol>>)]
            ELSE Guard(acc, env, "entry", symbol, "submit_order", TRUE,
                     Guard(submitted, env, "entry", symbol, "add_tracked", TRUE,
                           tracked)))

\* Lines 142-157: what the loop does with the outcome r of run_entry_gates;
\* an exception it raised is caught and logged by the try block.
AfterGates(acc, symbol, r, df, env, dt, buying_power, account_equity) ==
    LET gated == [acc EXCEPT !.engine = r.state,
                             !.events = Append(@, <<"run_entry_gates", symbol>>),
                             !.gates = Append(@, [symbol |-> symbol,
                                                  current_positions |-> acc.current_positions])]
    IN  IF Raises(r.decision)
        THEN [gated EXCEPT !.events = Append(@, <<"error", "entry", symbol>>)]
        ELSE IF r.decision.allowed /\ r.decision.order_request # None
        THEN EnterPosition(gated, symbol, r.decision, df, env, dt, buying_power,
                           account_equity)
        ELSE gated

\* Lines 121-157: the entry check of one universe symbol, all of it inside
\* the try block.
EntryStep(acc, symbol, env, dt, buying_power, account_equity) ==
    LET df == tail(env.bars[symbol], 220)
        seen == [acc EXCEPT !.seen = Append(@, <<"entry", symbol>>)]
    IN  IF acc.halt # "none" THEN acc
        ELSE Guard(seen, env, "entry", symbol, "get_bars", TRUE,
                 IF Len(df) < 200 THEN seen
                 ELSE Guard(seen, env, "entry", symbol, "get_latest_quote", TRUE,
                          CHOOSE next \in
                              {AfterGates(seen, symbol, r, df, env, dt, buying_power,
                                          account_equity) :
                                 r \in {run_entry_gates(acc.engine,
                                            EntryArgs(acc, symbol, df, env, dt,
                                                      account_equity))}} :
                              TRUE))

RECURSIVE EntryPhase(_, _, _, _, _, _)
\* Lines 120-159: the loop over the universe symbols.
EntryPhase(acc, symbols, env, dt, buying_power, account_equity) ==
    IF symbols = <<>> THEN acc
    ELSE CHOOSE done \in
             {EntryPhase(next, Tail(symbols), env, dt, buying_power, account_equity) :
                next \in {EntryStep(acc, Head(symbols), env, dt, buying_power,
                                    account_equity)}} :
             TRUE

\* Lines 120-159: the entry loop on the outcome of the exit loop.
Entries(exited, account, env, dt) ==
    EntryPhase(exited, config.symbols, env, dt, account.buying_power, account.equity)

\* Variant of Loops: the entry loop runs before the exit loop.
Loops_EntriesFirst(start, positions, account, env, dt) ==
    CHOOSE done \in {ExitPhase(entered, start.tracker, positions, env, dt) :
                       entered \in {Entries(start, account, env, dt)}} :
        TRUE

\* Lines 80-159: the exit loop and then the entry loop, from the synced tracker.
Loops(start, positions, account, env, dt) ==
    CHOOSE done \in {Entries(exited, account, env, dt) :
                       exited \in {ExitPhase(start, start.tracker, positions, env, dt)}} :
        TRUE

\* Lines 67-74: the positions synced before the add_tracked call of line 74
\* that fails, when one fails: those before the first position the
\* tracker lacks whose symbol the fault names.
SyncedBefore(data, positions, env) ==
    LET failing == {i \in 1..Len(positions) :
                      /\ ~HasKey(data, positions[i].symbol)
                      /\ FaultAt(env, "sync", positions[i].symbol, "add_tracked") # "none"}
    IN  IF failing = {} THEN positions
        ELSE SubSeq(positions, 1, (CHOOSE i \in failing : \A k \in failing : i <= k) - 1)

\* Lines 64-159: the pass after the portfolio-risk check let it go on.  The
\* sync of lines 67-74 stands outside the try blocks.
Phases(checked, account, data, env, dt) ==
    LET positions == get_positions(account)
        reached == SyncedBefore(data, positions, env)
        synced == SyncTracker(data, data, reached, dt.date)
        start == [engine |-> checked, tracker |-> synced,
                  orders |-> account.orders,
                  current_positions |-> CurrentPositions(positions, synced),
                  events |-> <<>>, entries |-> <<>>,
                  halt |-> "none", seen |-> <<>>, failed |-> <<>>,
                  synced |-> synced, gates |-> <<>>]
    IN  IF reached # positions
        THEN Guard(start, env, "sync", positions[Len(reached) + 1].symbol, "add_tracked",
                   FALSE, start)
        ELSE CHOOSE done \in {Loops(from, positions, account, env, dt) : from \in {start}} :
                 TRUE

\* Lines 42-159: one pass of the loop on the engine state, the account and
\* the tracker file: the record it leaves and whether the loop goes on.
Pass(engine, account, data, env, dt) ==
    LET updated == engine_update_equity(engine, account.equity, dt)
        risk == can_trade(updated.portfolio_risk, account.equity, "SPY", dt.date)
        checked == [updated EXCEPT !.portfolio_risk = risk.state]
        idle == [engine |-> engine, tracker |-> data, orders |-> account.orders,
                 current_positions |-> <<>>, events |-> <<>>, entries |-> <<>>,
                 halt |-> "none", seen |-> <<>>, failed |-> <<>>, synced |-> data,
                 gates |-> <<>>]
    IN  IF ~is_trading_allowed(dt)
        THEN [acc |-> idle, running |-> get_session_at(dt) # "closed"]
        ELSE IF ~risk.allowed
        THEN [acc |-> [idle EXCEPT !.engine = checked], running |-> FALSE]
        ELSE CHOOSE r \in {[acc |-> done, running |-> done.halt = "none"] :
                              done \in {Phases(checked, account, data, env, dt)}} :
                 TRUE

-----------------------------------------------------------------------------
(* Configuration.  DefaultConfig holds the defaults the constructors read. *)

Session(start, end, trade_allowed) ==
    [start |-> start, end |-> end, trade_allowed |-> trade_allowed]

\* Every component's defaults (the value each constructor reads when the
\* key is missing).  Times are minutes since midnight: "09:30" is 570.
DefaultConfig ==
    [\* MarketCalendar
     pre_market |-> Session(570, 960, TRUE),
     regular |-> Session(570, 960, TRUE),
     after_hours |-> Session(570, 960, TRUE),
     holidays |-> {},
     \* UniverseFilter
     symbols |-> <<>>,
     \* MarketQualityGate
     mq_max_spread_pct |-> R(10, 100),
     min_volume_atr_ratio |-> R(1, 1),
     block_on_news_spike |-> TRUE,
     news_volatility_spike_atr_multiple |-> R(2, 1),
     \* MacroEventBlackout, EarningsBlackout, VolatilityDoNotTrade
     macro_enabled |-> TRUE,
     blackout_dates |-> {},
     blackout_windows |-> <<>>,
     earnings_enabled |-> TRUE,
     days_before |-> 1,
     days_after |-> 1,
     earnings_dates |-> <<>>,
     dnt_enabled |-> TRUE,
     dnt_max_atr_pct |-> R(5, 2),
     dnt_max_spread_pct |-> R(15, 100),
     \* TrendFollowingStrategy
     player_focus |-> "neutral",
     institutional_min_volume_ratio |-> R(12, 10),
     ma_fast |-> 20,
     ma_slow |-> 200,
     pullback_touch_ma_fast |-> TRUE,
     atr_period |-> 14,
     max_atr_pct_for_entry |-> R(2, 1),
     stop_loss_pct |-> R(3, 2),
     take_profit_pct |-> R(3, 1),
     time_bars_exit |-> 20,
     kill_switch_max_spread_pct |-> R(25, 100),
     kill_switch_max_atr_multiple |-> R(3, 1),
     candlestick_enabled |-> FALSE,
     candlestick_patterns |-> <<>>,
     \* PositionSizer
     risk_per_trade_pct |-> R(1, 2),
     max_open_risk_pct |-> R(3, 1),
     max_exposure_per_symbol_pct |-> R(20, 1),
     max_exposure_per_sector_pct |-> R(40, 1),
     high_vol_enabled |-> FALSE,
     high_vol_atr_threshold |-> R(2, 1),
     high_vol_size_multiplier |-> R(1, 2),
     \* PortfolioRiskManager
     daily_loss_limit_pct |-> R(-2, 1),
     max_drawdown_pct |-> R(-10, 1),
     safe_mode_after_max_dd |-> TRUE,
     recovery_criteria_pct |-> R(-8, 1),
     max_trades_per_day |-> 15,
     max_trades_per_symbol_per_day |-> 3,
     \* ExecutionManager
     prefer_limit_orders |-> TRUE,
     limit_order_offset_ticks |-> 1,
     max_spread_pct_to_trade |-> R(10, 100),
     block_strategy_if_slippage_bps_avg_exceeds |-> R(25, 1),
     \* ComplianceManager
     pdt_min_equity |-> R(25000, 1),
     pdt_enabled |-> TRUE,
     margin_account |-> TRUE,
     \* run_alpaca_loop.main
     check_interval_minutes |-> 5,
     api_retry_times |-> 3,
     api_retry_delay_sec |-> 3]

NoCall == [op |-> "none"]

FreshPortfolioRisk ==
    [equity_curve |-> <<>>, peak_equity |-> Zero, daily_pnl_pct |-> Zero,
     daily_trade_count |-> 0, daily_trades_per_symbol |-> <<>>,
     last_trade_date |-> <<>>, safe_mode |-> FALSE,
     trading_stopped_for_day |-> FALSE]

FreshExecution ==
    [fill_history |-> <<>>, strategy_slippage_bps_avg |-> Zero,
     strategy_blocked |-> FALSE]

FreshPDT == [equity |-> Zero, day_trades_count_rolling |-> 0, day_trade_dates |-> <<>>]

FreshEngine ==
    /\ portfolio_risk = FreshPortfolioRisk
    /\ execution = FreshExecution
    /\ pdt = FreshPDT

\* No broker session, tracker file or control loop.
NoLoop ==
    /\ broker = None
    /\ tracker = <<>>
    /\ loop = None

-----------------------------------------------------------------------------
(* SpecSizer: size_position applied to every input of a bounded set.       *)

SizerConfigs ==
    { DefaultConfig,
      [DefaultConfig EXCEPT !.high_vol_enabled = TRUE],
      [DefaultConfig EXCEPT !.high_vol_enabled = TRUE,
                            !.high_vol_size_multiplier = Zero],
      [DefaultConfig EXCEPT !.high_vol_enabled = TRUE,
                            !.high_vol_size_multiplier = R(3, 2)],
      [DefaultConfig EXCEPT !.risk_per_trade_pct = R(1, 1),
                            !.max_exposure_per_symbol_pct = R(5, 1),
                            !.max_exposure_per_sector_pct = R(10, 1)] }

SizerInputs ==
    [account_equity : {R(-1000, 1), Zero, R(1000, 1), R(100000, 1)},
     price : {Zero, R(10, 1), R(300, 1), R(667, 20)},
     stop_distance_pct : {R(-1, 1), Zero, R(3, 2), R(5, 1)},
     symbol : {"SPY", "QQQ"},
     current_positions : {<<>>},
     sector_exposure_pct :
         {<<>>, [unknown |-> R(35, 1)], [tech |-> R(8, 1), unknown |-> R(25, 1)]},
     symbol_sector : {None, [SPY |-> "tech"]},
     atr_pct : {None, R(1, 1), R(3, 1)}]

SizerInit ==
    /\ config \in SizerConfigs
    /\ inp \in SizerInputs
    /\ call = NoCall
    /\ FreshEngine
    /\ NoLoop

SizePosition ==
    /\ call = NoCall
    /\ call' = [op |-> "size_position",
                ret |-> size_position(inp.account_equity, inp.price,
                            inp.stop_distance_pct, inp.symbol, inp.current_positions,
                            inp.sector_exposure_pct, inp.symbol_sector, inp.atr_pct)]
    /\ UNCHANGED <<config, portfolio_risk, execution, pdt, inp, broker, tracker, loop>>

SizerNext == SizePosition

SpecSizer == SizerInit /\ [][SizerNext]_vars

-----------------------------------------------------------------------------
(* SpecGates: the engine after a bounded number of ledger updates, then    *)
(* one run_entry_gates call and the submission of the order it allows.     *)

MaxEquityUpdates == 1
MaxFills == 1
MaxDayTrades == 3
MaxTrades == 1

\* Dates are day numbers; day 11 is a macro blackout date and day 12 an
\* earnings date of SPY.  Moving-average and ATR windows are shortened so
\* that a three-bar frame decides the strategy.
GateConfigA ==
    [DefaultConfig EXCEPT
        !.pre_market = Session(240, 570, FALSE),
        !.regular = Session(570, 960, TRUE),
        !.after_hours = Session(960, 1200, FALSE),
        !.symbols = <<"SPY", "QQQ">>,
        !.blackout_dates = {11},
        !.earnings_dates = [SPY |-> {12}],
        !.mq_max_spread_pct = R(15, 100),
        !.ma_fast = 2, !.ma_slow = 3, !.atr_period = 2]

\* Staggered spread thresholds, no news-spike or macro gate, and an
\* open-risk cap below the strategy's stop percentage.
GateConfigB ==
    [GateConfigA EXCEPT
        !.macro_enabled = FALSE,
        !.block_on_news_spike = FALSE,
        !.mq_max_spread_pct = R(30, 100),
        !.max_spread_pct_to_trade = R(25, 100),
        !.kill_switch_max_spread_pct = R(10, 100),
        !.max_open_risk_pct = R(17, 10)]

GateConfigs == {GateConfigA, GateConfigB}

Bar(open, high, low, close, volume) ==
    [open |-> open, high |-> high, low |-> low, close |-> close, volume |-> volume]

\* An uptrend with the last close near the fast average: an entry signal.
SignalFrame ==
    << Bar(R(100, 1), R(201, 2), R(199, 2), R(100, 1), R(1000, 1)),
       Bar(R(100, 1), R(201, 2), R(199, 2), R(100, 1), R(1000, 1)),
       Bar(R(100, 1), R(1009, 10), R(999, 10), R(502, 5), R(1000, 1)) >>

\* The last close below the slow average: no signal.
FlatFrame ==
    << Bar(R(100, 1), R(201, 2), R(199, 2), R(100, 1), R(1000, 1)),
       Bar(R(100, 1), R(201, 2), R(199, 2), R(100, 1), R(1000, 1)),
       Bar(R(100, 1), R(201, 2), R(197, 2), R(99, 1), R(1000, 1)) >>

DateTime(date, time) == [date |-> date, time |-> time]

GateInputs ==
    [symbol : {"SPY", "XYZ"},
     dt : {DateTime(10, 600), DateTime(11, 600), DateTime(11, 1290)},
     account_equity : {R(100000, 1), R(89000, 1)},
     current_positions :
         {<<>>, [QQQ |-> [notional |-> R(20000, 1), stop_pct |-> R(15, 1)]]},
     sector_exposure_pct : {<<>>, [unknown |-> R(39, 1)]},
     spread_pct : {R(5, 100), R(12, 100), R(20, 100)},
     volume_atr_ratio : {None},
     atr_multiple : {R(1, 1), R(3, 1)},
     ohlcv_df : {None, SignalFrame, FlatFrame},
     symbol_sector : {None}]

GatesInit ==
    /\ config \in GateConfigs
    /\ inp \in GateInputs
    /\ call = NoCall
    /\ FreshEngine
    /\ NoLoop

\* TradingEngine.update_equity: the account stood at 100000 the day before.
UpdateEquity ==
    /\ call = NoCall
    /\ Len(portfolio_risk.equity_curve) < MaxEquityUpdates
    /\ LET r == engine_update_equity(EngineState(portfolio_risk, execution, pdt),
                                     R(100000, 1), DateTime(9, 600))
       IN  /\ portfolio_risk' = r.portfolio_risk
           /\ pdt' = r.pdt
    /\ UNCHANGED <<config, execution, inp, call, broker, tracker, loop>>

\* ExecutionManager.record_fill: a buy filled 1% above the expected price.
RecordFill ==
    /\ call = NoCall
    /\ Len(execution.fill_history) < MaxFills
    /\ execution' = record_fill(execution, "SPY", "buy", 10, R(101, 1), R(100, 1))
    /\ UNCHANGED <<config, portfolio_risk, pdt, inp, call, broker, tracker, loop>>

\* ComplianceManager.record_day_trade
RecordDayTrade ==
    /\ call = NoCall
    /\ Len(pdt.day_trade_dates) < MaxDayTrades
    /\ pdt' = record_day_trade(pdt, 9)
    /\ UNCHANGED <<config, portfolio_risk, execution, inp, call, broker, tracker, loop>>

\* PortfolioRiskManager.check_daily_reset
CheckDailyReset ==
    /\ call = NoCall
    /\ portfolio_risk' = check_daily_reset(portfolio_risk, inp.dt.date)
    /\ UNCHANGED <<config, execution, pdt, inp, call, broker, tracker, loop>>

\* PortfolioRiskManager.record_trade: a losing trade.
RecordTrade ==
    /\ call = NoCall
    /\ portfolio_risk.daily_trade_count < MaxTrades
    /\ portfolio_risk' = record_trade(portfolio_risk, "SPY", R(-5, 2))
    /\ UNCHANGED <<config, execution, pdt, inp, call, broker, tracker, loop>>

\* TradingEngine.run_entry_gates
RunEntryGates ==
    /\ call = NoCall
    /\ LET r == run_entry_gates(EngineState(portfolio_risk, execution, pdt), inp)
       IN  /\ portfolio_risk' = r.state.portfolio_risk
           /\ call' = [op |-> "run_entry_gates", pre |-> portfolio_risk,
                       decision |-> r.decision]
    /\ UNCHANGED <<config, execution, pdt, inp, broker, tracker, loop>>

\* run_alpaca_loop.main, line 148: the allowed order goes to the broker.
SubmitOrder ==
    /\ call.op = "run_entry_gates"
    /\ ~Raises(call.decision)
    /\ call.decision.allowed /\ call.decision.order_request # None
    /\ call' = [call EXCEPT !.op = "submit_order"] @@
               [request |-> submit_order(call.decision.order_request)]
    /\ UNCHANGED <<config, portfolio_risk, execution, pdt, inp, broker, tracker, loop>>

GatesNext ==
    \/ UpdateEquity
    \/ RecordFill
    \/ RecordDayTrade
    \/ CheckDailyReset
    \/ RecordTrade
    \/ RunEntryGates
    \/ SubmitOrder

SpecGates == GatesInit /\ [][GatesNext]_vars

-----------------------------------------------------------------------------
(* SpecIsolation: the engine of SpecGates under one configuration in which *)
(* the thresholds of the gates are staggered, on inputs that vary the      *)
(* arguments of each gate around one allowed call.                         *)

\* Day 11 is a macro blackout date, days 12-14 are the earnings window of
\* SPY; a spread of 0.12 passes market quality and fails the execution
\* test, an ATR multiple of 3 passes market quality and fails the
\* volatility kill switch.  The exposure cap sizes the trade to one share
\* and a risk_pct of 0.15 at an equity of 1000, to 199 shares and 0.2997
\* at 100000; the open-risk test adds it to the stop of 1.5, and the cap
\* lies between the two sums.
IsolationConfig ==
    [GateConfigA EXCEPT
        !.earnings_dates = [SPY |-> {13}],
        !.block_on_news_spike = FALSE,
        !.max_open_risk_pct = R(17, 10)]

IsolationInputs ==
    [symbol : {"SPY", "XYZ"},
     dt : {DateTime(10, 600), DateTime(10, 1290), DateTime(11, 600), DateTime(12, 600)},
     account_equity : {R(1000, 1), R(100000, 1)},
     current_positions : {<<>>},
     sector_exposure_pct : {<<>>, [unknown |-> R(39, 1)]},
     spread_pct : {R(5, 100), R(12, 100), R(20, 100)},
     volume_atr_ratio : {None},
     atr_multiple : {R(1, 1), R(3, 1)},
     ohlcv_df : {SignalFrame, FlatFrame},
     symbol_sector : {None}]

\* The call that every gate lets pass.
IsolationBaseline ==
    [symbol |-> "SPY", dt |-> DateTime(10, 600), account_equity |-> R(1000, 1),
     current_positions |-> <<>>, sector_exposure_pct |-> <<>>,
     spread_pct |-> R(5, 100), volume_atr_ratio |-> None, atr_multiple |-> R(1, 1),
     ohlcv_df |-> SignalFrame, symbol_sector |-> None]

\* The engine states the gates read: fresh, after update_equity(100000),
\* after a fill 1% above the expected price, after three day trades.
IsolationStates ==
    LET fresh == EngineState(FreshPortfolioRisk, FreshExecution, FreshPDT)
        traded == record_day_trade(record_day_trade(record_day_trade(FreshPDT, 9), 9), 9)
    IN  {fresh,
         engine_update_equity(fresh, R(100000, 1), DateTime(9, 600)),
         [fresh EXCEPT !.execution =
             record_fill(FreshExecution, "SPY", "buy", 10, R(101, 1), R(100, 1))],
         [fresh EXCEPT !.pdt = traded]}

IsolationInit ==
    /\ config = IsolationConfig
    /\ inp \in IsolationInputs
    /\ call = NoCall
    /\ FreshEngine
    /\ NoLoop

SpecIsolation == IsolationInit /\ [][GatesNext]_vars

-----------------------------------------------------------------------------
(* SpecRisk: the portfolio-risk ledger under any interleaving of its       *)
(* operations, on a few dates, equities and trade results.                 *)

MaxCurve == 2
MaxLedgerTrades == 3

\* Small daily caps, so that the trade-count checks are reached.
RiskConfig ==
    [DefaultConfig EXCEPT !.max_trades_per_day = 3,
                          !.max_trades_per_symbol_per_day = 2]

RiskDates == {9, 10}
\* The equities update_equity records, and the equities can_trade is asked
\* with: 11%, 8% and 7% below the peak of 100000.
RiskEquities == {R(100000, 1), R(89000, 1)}
RiskAskEquities == {R(89000, 1), R(92000, 1), R(93000, 1)}
RiskSymbols == {"SPY", "QQQ"}

RiskInit ==
    /\ config = RiskConfig
    /\ inp = None
    /\ call = NoCall
    /\ FreshEngine
    /\ NoLoop

\* PortfolioRiskManager.update_equity
LedgerUpdateEquity ==
    /\ Len(portfolio_risk.equity_curve) < MaxCurve
    /\ \E equity \in RiskEquities :
          /\ portfolio_risk' = pr_update_equity(portfolio_risk, DateTime(9, 600), equity)
          /\ call' = [op |-> "update_equity", pre |-> portfolio_risk, equity |-> equity]
    /\ UNCHANGED <<config, execution, pdt, inp, broker, tracker, loop>>

\* TradingEngine.update_equity
LedgerEngineUpdateEquity ==
    /\ Len(portfolio_risk.equity_curve) < MaxCurve
    /\ \E equity \in RiskEquities :
          LET r == engine_update_equity(EngineState(portfolio_risk, execution, pdt),
                                       equity, DateTime(9, 600))
          IN  /\ portfolio_risk' = r.portfolio_risk
              /\ pdt' = r.pdt
              /\ call' = [op |-> "engine.update_equity", pre |-> portfolio_risk,
                          equity |-> equity]
    /\ UNCHANGED <<config, execution, inp, broker, tracker, loop>>

\* PortfolioRiskManager.check_daily_reset
LedgerCheckDailyReset ==
    /\ \E today \in RiskDates :
          /\ portfolio_risk' = check_daily_reset(portfolio_risk, today)
          /\ call' = [op |-> "check_daily_reset", pre |-> portfolio_risk,
                      today |-> today]
    /\ UNCHANGED <<config, execution, pdt, inp, broker, tracker, loop>>

\* PortfolioRiskManager.can_trade
LedgerCanTrade ==
    /\ \E today \in RiskDates, equity \in RiskAskEquities, symbol \in RiskSymbols :
          LET r == can_trade(portfolio_risk, equity, symbol, today)
          IN  /\ portfolio_risk' = r.state
              /\ call' = [op |-> "can_trade", pre |-> portfolio_risk, today |-> today,
                          equity |-> equity, symbol |-> symbol,
                          ret |-> Verdict(r.allowed, r.reason)]
    /\ UNCHANGED <<config, execution, pdt, inp, broker, tracker, loop>>

\* PortfolioRiskManager.record_trade: a loss of 2.5% in SPY or a gain of 1%
\* in QQQ.
LedgerRecordTrade ==
    /\ portfolio_risk.daily_trade_count < MaxLedgerTrades
    /\ \E symbol \in RiskSymbols :
          LET pnl_pct == IF symbol = "SPY" THEN R(-5, 2) ELSE R(1, 1)
          IN  /\ portfolio_risk' = record_trade(portfolio_risk, symbol, pnl_pct)
              /\ call' = [op |-> "record_trade", pre |-> portfolio_risk,
                          symbol |-> symbol, pnl_pct |-> pnl_pct]
    /\ UNCHANGED <<config, execution, pdt, inp, broker, tracker, loop>>

RiskNext ==
    \/ LedgerUpdateEquity
    \/ LedgerEngineUpdateEquity
    \/ LedgerCheckDailyReset
    \/ LedgerCanTrade
    \/ LedgerRecordTrade

SpecRisk == RiskInit /\ [][RiskNext]_vars

-----------------------------------------------------------------------------
(* SpecBreaker: fills recorded in the execution ledger, interleaved with   *)
(* run_entry_gates calls on one set of arguments.                          *)

MaxBreakerFills == 3

\* The arguments of SpecGates on an open, tradeable day with an entry
\* signal: the symbol and the spread decide the gates before the breaker.
BreakerInputs ==
    [symbol : {"SPY", "XYZ"},
     dt : {DateTime(10, 600)},
     account_equity : {R(100000, 1)},
     current_positions : {<<>>},
     sector_exposure_pct : {<<>>},
     spread_pct : {R(5, 100), R(12, 100), R(20, 100)},
     volume_atr_ratio : {None},
     atr_multiple : {R(1, 1)},
     ohlcv_df : {SignalFrame},
     symbol_sector : {None}]

BreakerInit ==
    /\ config = GateConfigA
    /\ inp \in BreakerInputs
    /\ call = NoCall
    /\ FreshEngine
    /\ NoLoop

\* ExecutionManager.record_fill: a buy 100 bps above the expected price, a
\* buy at the expected price, or a sell 20 bps above it.
BreakerRecordFill ==
    /\ Len(execution.fill_history) < MaxBreakerFills
    /\ \E fill \in {<<"buy", R(101, 1)>>, <<"buy", R(100, 1)>>, <<"sell", R(1002, 10)>>} :
          execution' = record_fill(execution, "SPY", fill[1], 10, fill[2], R(100, 1))
    /\ call' = [op |-> "record_fill", pre |-> execution]
    /\ UNCHANGED <<config, portfolio_risk, pdt, inp, broker, tracker, loop>>

\* TradingEngine.run_entry_gates
BreakerRunEntryGates ==
    /\ LET r == run_entry_gates(EngineState(portfolio_risk, execution, pdt), inp)
       IN  /\ portfolio_risk' = r.state.portfolio_risk
           /\ call' = [op |-> "run_entry_gates", pre |-> portfolio_risk,
                       decision |-> r.decision]
    /\ UNCHANGED <<config, execution, pdt, inp, broker, tracker, loop>>

BreakerNext ==
    \/ BreakerRecordFill
    \/ BreakerRunEntryGates

SpecBreaker == BreakerInit /\ [][BreakerNext]_vars

-----------------------------------------------------------------------------
(* SpecExit: check_exit applied to every input of a bounded set.           *)

\* The default exits, no target (take_profit_pct 0.0 becomes None), and a
\* target below the stop, so that stop and target can fire together.
ExitConfigs ==
    { DefaultConfig,
      [DefaultConfig EXCEPT !.take_profit_pct = Zero],
      [DefaultConfig EXCEPT !.take_profit_pct = R(-2, 1)] }

\* Returns of -2%, -1.5%, 0%, 3% and 4% on an entry at 100; bars held,
\* spread and ATR multiple below, at and above their thresholds.
ExitInputs ==
    [symbol : {"SPY"},
     entry_price : {R(100, 1)},
     current_price : {R(98, 1), R(197, 2), R(100, 1), R(103, 1), R(104, 1)},
     bars_held : {0, 20, 25},
     spread_pct : {None, R(25, 100), R(30, 100)},
     atr_multiple : {None, R(3, 1), R(7, 2)}]

ExitInit ==
    /\ config \in ExitConfigs
    /\ inp \in ExitInputs
    /\ call = NoCall
    /\ FreshEngine
    /\ NoLoop

\* TradingEngine.check_exit
CheckExit ==
    /\ call = NoCall
    /\ call' = [op |-> "check_exit",
                ret |-> check_exit(inp.symbol, inp.entry_price, inp.current_price,
                            inp.bars_held, inp.spread_pct, inp.atr_multiple)]
    /\ UNCHANGED <<config, portfolio_risk, execution, pdt, inp, broker, tracker, loop>>

SpecExit == ExitInit /\ [][CheckExit]_vars

-----------------------------------------------------------------------------
(* SpecCalendar: the MarketCalendar asked about times of two days, under   *)
(* session windows that wrap midnight, overlap or are empty.               *)

\* Pre-market 04:00-09:30, or 20:00-04:00 across midnight; regular
\* 09:30-16:00, or the empty window 09:30-09:30; after-hours 16:00-20:00,
\* or 16:00-21:00, which overlaps the wrapped pre-market.  Day 11 may be a
\* holiday.
CalendarConfigs ==
    {[DefaultConfig EXCEPT !.pre_market = p, !.regular = r, !.after_hours = a,
                           !.holidays = h] :
        p \in {Session(240, 570, FALSE), Session(1200, 240, TRUE)},
        r \in {Session(570, 960, TRUE), Session(570, 570, TRUE)},
        a \in {Session(960, 1200, FALSE), Session(960, 1260, FALSE)},
        h \in {{}, {11}}}

\* 00:00, 02:00, 04:00, 05:00, 09:29, 09:30, 15:59, 16:00, 19:59, 20:00,
\* 20:30, 21:00, 23:00 and 23:59.
CalendarTimes ==
    {0, 120, 240, 300, 569, 570, 959, 960, 1199, 1200, 1230, 1260, 1380, 1439}

CalendarInit ==
    /\ config \in CalendarConfigs
    /\ call = NoCall
    /\ inp = None
    /\ FreshEngine
    /\ NoLoop

\* MarketCalendar.is_trading_allowed and get_session_at on one datetime.
IsTradingAllowed ==
    /\ \E date \in {10, 11}, time \in CalendarTimes :
          LET dt == DateTime(date, time)
          IN  call' = [op |-> "is_trading_allowed", dt |-> dt,
                       session |-> get_session_at(dt), ret |-> is_trading_allowed(dt)]
    /\ UNCHANGED <<config, portfolio_risk, execution, pdt, inp, broker, tracker, loop>>

SpecCalendar == CalendarInit /\ [][IsTradingAllowed]_vars

-----------------------------------------------------------------------------
(* SpecPdt: the ComplianceManager on a PDTState under any interleaving of  *)
(* record_day_trade, update_equity and can_day_trade.                      *)

MaxPdtDates == 4

PdtConfigs ==
    {[DefaultConfig EXCEPT !.pdt_enabled = e, !.margin_account = m] :
        e \in BOOLEAN, m \in BOOLEAN}

\* Day 3 is seven days before day 10 and eight days before day 11.
PdtTradeDates == {3, 4, 10}
PdtToday == {10, 11}
PdtEquities == {R(20000, 1), R(25000, 1), R(30000, 1)}

PdtInit ==
    /\ config \in PdtConfigs
    /\ pdt = FreshPDT
    /\ call = NoCall
    /\ inp = None
    /\ portfolio_risk = FreshPortfolioRisk
    /\ execution = FreshExecution
    /\ NoLoop

\* ComplianceManager.record_day_trade
PdtRecordDayTrade ==
    /\ Len(pdt.day_trade_dates) < MaxPdtDates
    /\ \E d \in PdtTradeDates :
          /\ pdt' = record_day_trade(pdt, d)
          /\ call' = [op |-> "record_day_trade", pre |-> pdt, trade_date |-> d]
    /\ UNCHANGED <<config, portfolio_risk, execution, inp, broker, tracker, loop>>

\* ComplianceManager.update_equity
PdtUpdateEquity ==
    /\ \E equity \in PdtEquities :
          /\ pdt' = pdt_update_equity(pdt, equity)
          /\ call' = [op |-> "update_equity", pre |-> pdt, equity |-> equity]
    /\ UNCHANGED <<config, portfolio_risk, execution, inp, broker, tracker, loop>>

\* ComplianceManager.can_day_trade: it assigns to nothing.
PdtCanDayTrade ==
    /\ \E d \in PdtToday :
          call' = [op |-> "can_day_trade", pre |-> pdt, trade_date |-> d,
                   ret |-> can_day_trade(pdt, d)]
    /\ UNCHANGED <<config, portfolio_risk, execution, pdt, inp, broker, tracker, loop>>

PdtNext ==
    \/ PdtRecordDayTrade
    \/ PdtUpdateEquity
    \/ PdtCanDayTrade

SpecPdt == PdtInit /\ [][PdtNext]_vars

-----------------------------------------------------------------------------
(* SpecRetry: AlpacaBroker._with_retry around a call fn whose attempts     *)
(* succeed or raise as inp.outcomes says.  call holds the position in the  *)
(* for loop: the attempts made, the sleeps, the last error and the way the *)
(* wrapper ended.                                                          *)

MaxAttempts == 3

RetryConfigs == {[DefaultConfig EXCEPT !.api_retry_times = n] : n \in 0..MaxAttempts}

\* An attempt of fn that returns its result.
Returns == [returns |-> "result"]

\* What one attempt of fn does: it returns, or raises a connection error
\* (by name or by message) or another error.
FnOutcomes ==
    {Returns, Exception("RemoteDisconnected", ""), Exception("OSError", "Connection aborted"),
     Exception("ConnectionResetError", "Connection reset by peer"),
     Exception("ValueError", ""), Exception("APIError", "forbidden")}

RECURSIVE Seqs(_, _)
\* The sequences of length n over S.
Seqs(S, n) ==
    IF n = 0 THEN {<<>>} ELSE {Append(q, x) : q \in Seqs(S, n - 1), x \in S}

RetryInit ==
    /\ config \in RetryConfigs
    /\ inp \in [outcomes : Seqs(FnOutcomes, MaxAttempts)]
    /\ call = [op |-> "_with_retry", attempt |-> 0, log |-> <<>>, slept |-> 0, last |-> None,
               status |-> "running", value |-> None]
    /\ FreshEngine
    /\ NoLoop

\* Lines 69-79: one iteration of the for loop.
RetryAttempt ==
    /\ call.op = "_with_retry" /\ call.status = "running"
    /\ call.attempt < config.api_retry_times
    /\ LET outcome == inp.outcomes[call.attempt + 1]
           tried == [call EXCEPT !.attempt = @ + 1, !.log = Append(@, "fn")]
       IN  call' =
             IF outcome = Returns
             THEN [tried EXCEPT !.status = "returned", !.value = outcome]
             ELSE IF /\ IsConnectionError(outcome)
                     /\ call.attempt < config.api_retry_times - 1
             THEN [tried EXCEPT !.last = outcome, !.log = Append(@, "sleep"),
                                !.slept = @ + config.api_retry_delay_sec]
             ELSE [tried EXCEPT !.last = outcome, !.status = "raised",
                                !.value = outcome]
    /\ UNCHANGED <<config, portfolio_risk, execution, pdt, inp, broker, tracker, loop>>

\* Lines 80-82: the range is exhausted.
RetryExhausted ==
    /\ call.op = "_with_retry" /\ call.status = "running"
    /\ call.attempt >= config.api_retry_times
    /\ call' = [call EXCEPT
                   !.status = "raised",
                   !.value = IF call.last # None THEN call.last
                             ELSE Exception("RuntimeError", "retry failed")]
    /\ UNCHANGED <<config, portfolio_risk, execution, pdt, inp, broker, tracker, loop>>

RetryNext ==
    \/ RetryAttempt
    \/ RetryExhausted

\* The for loop runs on until it returns or raises.
SpecRetry == RetryInit /\ [][RetryNext]_vars /\ WF_vars(RetryNext)

-----------------------------------------------------------------------------
(* SpecLoop: the control loop against a broker account.  Between passes    *)
(* the broker may fill a submitted order.  The run starts with an empty    *)
(* tracker file, with or without a position left in the account.           *)

MaxPasses == 2

\* The default configuration with a two-symbol universe and small daily
\* trade caps.
LoopConfig ==
    [DefaultConfig EXCEPT !.symbols = <<"SPY", "QQQ">>,
                          !.max_trades_per_day = 2,
                          !.max_trades_per_symbol_per_day = 1]

\* 220 daily bars: a flat market at 100 and the last bar.
DailyBars(last) ==
    [i \in 1..220 |->
        IF i < 220 THEN Bar(R(100, 1), R(201, 2), R(199, 2), R(100, 1), R(1000, 1))
        ELSE last]

\* The last close 100.4: above the slow average, within 0.5% of the fast.
LoopSignalBars == DailyBars(Bar(R(100, 1), R(1009, 10), R(999, 10), R(502, 5), R(1000, 1)))
\* The last close 99: below the slow average.
LoopFlatBars == DailyBars(Bar(R(100, 1), R(201, 2), R(197, 2), R(99, 1), R(1000, 1)))

QuoteInfo(bid, ask) ==
    LET mid == RDiv(RAdd(bid, ask), R(2, 1))
    IN  [bid |-> bid, ask |-> ask, mid |-> mid,
         spread_pct |-> RMul(RDiv(RSub(ask, bid), mid), Hundred)]

\* A tight quote at the last close, a tight quote 2.4% lower and a quote
\* 2.4% lower with a spread of 1%.
TightQuote == QuoteInfo(R(10038, 100), R(10042, 100))
LowQuote == QuoteInfo(R(9798, 100), R(9802, 100))
WideQuote == QuoteInfo(R(975, 10), R(985, 10))

\* The market data of one pass: SPY with no quote, a quote at the last
\* close or a lower one (tight or wide), QQQ quoted at the last close; the
\* bars of both symbols with or without an entry signal.
PassEnvs ==
    {[quote |-> [SPY |-> q, QQQ |-> TightQuote], bars |-> [SPY |-> b, QQQ |-> b]] :
        q \in {None, TightQuote, LowQuote, WideQuote},
        b \in {LoopSignalBars, LoopFlatBars}}

\* A broker position of qty shares valued at price.
Position(symbol, qty, price) ==
    [symbol |-> symbol, qty |-> qty, market_value |-> RMul(RFromInt(qty), price),
     cost_basis |-> RMul(RFromInt(qty), price)]

LoopInit ==
    /\ config = LoopConfig
    /\ FreshEngine
    /\ broker \in [equity : {R(100000, 1)}, buying_power : {R(200000, 1)},
                   positions : {<<>>, <<Position("SPY", 199, R(502, 5))>>},
                   orders : {<<>>}]
    /\ tracker = <<>>
    /\ loop \in [dt : {DateTime(10, 600), DateTime(10, 955)}, running : {TRUE},
                 passes : {0}]
    /\ inp = None
    /\ call = NoCall

\* main, lines 41-159: one pass of the while loop and the sleep after it.
LoopPass ==
    /\ loop.running
    /\ loop.passes < MaxPasses
    /\ \E env \in PassEnvs :
          \E r \in {Pass(EngineState(portfolio_risk, execution, pdt), broker, tracker,
                         env, loop.dt)} :
              /\ portfolio_risk' = r.acc.engine.portfolio_risk
              /\ pdt' = r.acc.engine.pdt
              /\ tracker' = r.acc.tracker
              /\ broker' = [broker EXCEPT !.orders = r.acc.orders]
              /\ loop' = [dt |-> IF r.running
                                 THEN DateTime(loop.dt.date,
                                               loop.dt.time + config.check_interval_minutes)
                                 ELSE loop.dt,
                          running |-> r.running, passes |-> loop.passes + 1]
              /\ call' = [op |-> "pass", dt |-> loop.dt, events |-> r.acc.events,
                          entries |-> r.acc.entries]
    /\ UNCHANGED <<config, execution, inp>>

\* The position of symbol after qty more shares (fewer when negative) at
\* price; a flat position disappears.
Traded(positions, symbol, qty, price) ==
    LET old == SelectSeq(positions, LAMBDA p : p.symbol = symbol)
        rest == SelectSeq(positions, LAMBDA p : p.symbol # symbol)
        now == (IF old = <<>> THEN 0 ELSE old[1].qty) + qty
    IN  IF now = 0 THEN rest ELSE Append(rest, Position(symbol, now, price))

\* The broker fills a submitted order on the side it was submitted on.
BrokerFill ==
    /\ \E i \in 1..Len(broker.orders) :
          LET o == broker.orders[i]
              qty == IF o.request.side = "BUY" THEN o.request.qty ELSE -o.request.qty
          IN  /\ ~o.filled
              /\ broker' = [broker EXCEPT
                               !.orders[i].filled = TRUE,
                               !.positions = Traded(@, o.request.symbol, qty,
                                                    o.order.expected_price)]
              /\ call' = [op |-> "fill", order |-> i]
    /\ UNCHANGED <<config, portfolio_risk, execution, pdt, tracker, loop, inp>>

LoopNext ==
    \/ LoopPass
    \/ BrokerFill

SpecLoop == LoopInit /\ [][LoopNext]_vars

-----------------------------------------------------------------------------
(* SpecFaults: the control loop when one operation of a pass fails for one *)
(* symbol, or when the user stops the run with Ctrl-C: in the middle of a  *)
(* pass or during the sleep after it.                                      *)

\* The operations of a pass made for one symbol: add_tracked of the sync
\* (line 74); remove_tracked (lines 85, 89, 115), get_latest_quote (92),
\* get_bars (103) and submit_order (113) of the exit loop; get_bars (122),
\* get_latest_quote (125), get_buying_power (144), submit_order (148) and
\* add_tracked (152) of the entry loop.
FaultPoints ==
    {<<"sync", "add_tracked">>,
     <<"exit", "remove_tracked">>, <<"exit", "get_latest_quote">>,
     <<"exit", "get_bars">>, <<"exit", "submit_order">>,
     <<"entry", "get_bars">>, <<"entry", "get_latest_quote">>,
     <<"entry", "get_buying_power">>, <<"entry", "submit_order">>,
     <<"entry", "add_tracked">>}

Faults ==
    {[phase |-> at[1], op |-> at[2], symbol |-> symbol, kind |-> kind] :
        at \in FaultPoints, symbol \in {"SPY", "QQQ"}, kind \in {"error", "interrupt"}}

\* The market data of one pass: both symbols with an entry signal, SPY
\* quoted at the last close or 2.4% lower; no failure, or one.
FaultEnvs ==
    LET envs == {[quote |-> [SPY |-> q, QQQ |-> TightQuote],
                  bars |-> [SPY |-> LoopSignalBars, QQQ |-> LoopSignalBars]] :
                    q \in {TightQuote, LowQuote}}
    IN  envs \cup {[quote |-> env.quote, bars |-> env.bars, fault |-> fault] :
                      env \in envs, fault \in Faults}

FaultInit ==
    /\ config = LoopConfig
    /\ FreshEngine
    /\ broker \in [equity : {R(100000, 1)}, buying_power : {R(200000, 1)},
                   positions : {<<>>, <<Position("SPY", 199, R(502, 5))>>},
                   orders : {<<>>}]
    /\ tracker = <<>>
    /\ loop = [dt |-> DateTime(10, 600), running |-> TRUE, passes |-> 0,
               halt |-> "none"]
    /\ inp = None
    /\ call = NoCall

\* main, lines 41-159: one pass of the while loop, which an exception that
\* no try block catches ends where it was raised; __main__, lines 164-168.
FaultyPass ==
    /\ loop.running
    /\ loop.passes < MaxPasses
    /\ \E env \in FaultEnvs :
          \E r \in {Pass(EngineState(portfolio_risk, execution, pdt), broker, tracker,
                         env, loop.dt)} :
              /\ portfolio_risk' = r.acc.engine.portfolio_risk
              /\ pdt' = r.acc.engine.pdt
              /\ tracker' = r.acc.tracker
              /\ broker' = [broker EXCEPT !.orders = r.acc.orders]
              /\ loop' = [dt |-> IF r.running
                                 THEN DateTime(loop.dt.date,
                                               loop.dt.time + config.check_interval_minutes)
                                 ELSE loop.dt,
                          running |-> r.running, passes |-> loop.passes + 1,
                          halt |-> r.acc.halt]
              /\ call' = [op |-> "pass", dt |-> loop.dt, events |-> r.acc.events,
                          entries |-> r.acc.entries, seen |-> r.acc.seen,
                          failed |-> r.acc.failed, halt |-> r.acc.halt,
                          fault |-> IF "fault" \in DOMAIN env THEN env.fault ELSE None,
                          tracked |-> {tracker[i].symbol : i \in 1..Len(tracker)}
                                      \cup {broker.positions[i].symbol :
                                               i \in 1..Len(broker.positions)}]
    /\ UNCHANGED <<config, execution, inp>>

\* Line 161 and lines 164-168: Ctrl-C during the sleep after a pass.
StopDuringSleep ==
    /\ loop.running
    /\ call.op = "pass"
    /\ loop' = [loop EXCEPT !.running = FALSE, !.halt = "KeyboardInterrupt"]
    /\ UNCHANGED <<config, portfolio_risk, execution, pdt, broker, tracker, inp, call>>

FaultsNext ==
    \/ FaultyPass
    \/ StopDuringSleep
    \/ BrokerFill

SpecFaults == FaultInit /\ [][FaultsNext]_vars

-----------------------------------------------------------------------------
(* SpecScenario: one entry decision of run_example.main, or one exit check *)
(* of the control loop, under the default configuration and variants of    *)
(* it, on valid and invalid market data.                                   *)

\* The defaults with a universe.
ScenarioDefault == [DefaultConfig EXCEPT !.symbols = <<"SPY", "QQQ">>]

\* The default configuration; no stop distance; averages over two and
\* three bars with an ATR over four; a limit offset of 200 ticks; market
\* orders.
ScenarioConfigs ==
    {ScenarioDefault,
     [ScenarioDefault EXCEPT !.stop_loss_pct = Zero],
     [ScenarioDefault EXCEPT !.ma_fast = 2, !.ma_slow = 3, !.atr_period = 4],
     [ScenarioDefault EXCEPT !.limit_order_offset_ticks = 200],
     [ScenarioDefault EXCEPT !.prefer_limit_orders = FALSE]}

\* The frame with every price multiplied by k.
Scaled(df, k) ==
    [i \in DOMAIN df |->
        Bar(RMul(df[i].open, k), RMul(df[i].high, k), RMul(df[i].low, k),
            RMul(df[i].close, k), df[i].volume)]

\* No frame, an empty frame, three bars, 220 bars with and without an
\* entry signal at 100.4, the same at 1.004, and 220 bars at a price of 0.
ScenarioFrames ==
    {None, <<>>, SignalFrame, LoopSignalBars, LoopFlatBars,
     Scaled(LoopSignalBars, R(1, 100)), Scaled(LoopSignalBars, Zero)}

\* The arguments of run_example.main, lines 56-67, with other equities,
\* spreads and frames.
ScenarioInputs ==
    [symbol : {"SPY"},
     dt : {DateTime(10, 630)},
     account_equity : {R(100000, 1), Zero},
     current_positions : {<<>>},
     sector_exposure_pct : {[Technology |-> Zero]},
     spread_pct : {R(5, 100), R(20, 100)},
     volume_atr_ratio : {R(3, 2)},
     atr_multiple : {R(1, 1)},
     ohlcv_df : ScenarioFrames,
     symbol_sector : {[SPY |-> "Technology"]}]

ScenarioInit ==
    /\ config \in ScenarioConfigs
    /\ inp \in ScenarioInputs
    /\ call = NoCall
    /\ FreshEngine
    /\ NoLoop

\* run_alpaca_loop.main, lines 81-118: the exit check of a tracked position
\* the broker holds, entered at 100.4 or at 1.004, on a tight quote at the
\* entry price or 2.4% below it.
ScenarioExit ==
    /\ call = NoCall
    /\ \E qty \in {0, 10}, k \in {R(1, 1), R(1, 100)}, q \in {TightQuote, LowQuote} :
          LET price == RMul(R(502, 5), k)
              pos == [symbol |-> "SPY", qty |-> qty, entry_price |-> price,
                      entry_time |-> 9, stop_pct |-> R(3, 2)]
              quote == QuoteInfo(RMul(q.bid, k), RMul(q.ask, k))
              env == [quote |-> [SPY |-> quote], bars |-> [SPY |-> <<>>]]
              acc == [tracker |-> <<pos>>, orders |-> <<>>, events |-> <<>>,
                      halt |-> "none", seen |-> <<>>, failed |-> <<>>]
          IN  \E done \in {ExitStep(acc, pos, <<Position("SPY", qty, price)>>, env, inp.dt)} :
                  call' = [op |-> "exit", pos |-> pos, orders |-> done.orders,
                           tracker |-> done.tracker]
    /\ UNCHANGED <<config, portfolio_risk, execution, pdt, inp, broker, tracker, loop>>

ScenarioNext ==
    \/ UpdateEquity
    \/ RunEntryGates
    \/ SubmitOrder
    \/ ScenarioExit

SpecScenario == ScenarioInit /\ [][ScenarioNext]_vars

-----------------------------------------------------------------------------
(* SpecFills: record_fill called again and again on a fresh ExecutionState, *)
(* with the calls kept in a log.                                           *)

MaxFillCalls == 3

\* The fills of a call: buys and sells of 10 shares, filled 1% above, at,
\* or 0.2% below the expected price of 100; an expected price of 0 stands
\* for an order that carried no price.
FillArgs ==
    [symbol : {"SPY"}, side : {"buy", "sell"}, quantity : {10},
     fill_price : {R(101, 1), R(100, 1), R(998, 10)},
     expected_price : {R(100, 1), Zero}]

FillsInit ==
    /\ config = DefaultConfig
    /\ FreshEngine
    /\ NoLoop
    /\ inp = None
    /\ call = [op |-> "none", log |-> <<>>]

\* ExecutionManager.record_fill
FillsRecordFill ==
    /\ Len(call.log) < MaxFillCalls
    /\ \E a \in FillArgs :
          /\ execution' = record_fill(execution, a.symbol, a.side, a.quantity,
                                      a.fill_price, a.expected_price)
          /\ call' = [op |-> "record_fill", log |-> Append(call.log, a)]
    /\ UNCHANGED <<config, portfolio_risk, pdt, inp, broker, tracker, loop>>

SpecFills == FillsInit /\ [][FillsRecordFill]_vars

-----------------------------------------------------------------------------
(* SpecTracker: position_tracker.add and remove called again and again on  *)
(* one tracker file.  The file is absent, or holds a text: a sequence of   *)
(* JSON tokens.  The map the calls should have built is kept beside it.    *)

\* JSON tokens: punctuation, strings and numbers.
Punct(p) == [t |-> p]
JStr(s) == [t |-> "string", v |-> s]
JNum(x) == [t |-> "number", v |-> x]

\* json.dump of one entry of the document: "SYMBOL": {"qty": ..., ...}
EntryTokens(e) ==
    << JStr(e.symbol), Punct(":"), Punct("{"),
       JStr("qty"), Punct(":"), JNum(e.qty), Punct(","),
       JStr("entry_price"), Punct(":"), JNum(e.entry_price), Punct(","),
       JStr("entry_time"), Punct(":"), JStr(e.entry_time), Punct(","),
       JStr("stop_pct"), Punct(":"), JNum(e.stop_pct), Punct("}") >>

RECURSIVE MembersTokens(_)
MembersTokens(data) ==
    IF data = <<>> THEN <<>>
    ELSE IF Len(data) = 1 THEN EntryTokens(data[1])
    ELSE EntryTokens(data[1]) \o <<Punct(",")>> \o MembersTokens(Tail(data))

\* json.dump(data, f): the members in the order of the dict.
dumps(data) == <<Punct("{")>> \o MembersTokens(data) \o <<Punct("}")>>

\* position_tracker.save: the file is created or overwritten.
save(data) == [exists |-> TRUE, text |-> dumps(data)]

\* The tokens at offset from form a member "key": {...} of the document.
IsMember(text, from) ==
    /\ from + 18 <= Len(text)
    /\ text[from].t = "string"
    /\ text[from + 1] = Punct(":") /\ text[from + 2] = Punct("{")
    /\ text[from + 3] = JStr("qty") /\ text[from + 4] = Punct(":")
    /\ text[from + 5].t = "number" /\ text[from + 6] = Punct(",")
    /\ text[from + 7] = JStr("entry_price") /\ text[from + 8] = Punct(":")
    /\ text[from + 9].t = "number" /\ text[from + 10] = Punct(",")
    /\ text[from + 11] = JStr("entry_time") /\ text[from + 12] = Punct(":")
    /\ text[from + 13].t = "string" /\ text[from + 14] = Punct(",")
    /\ text[from + 15] = JStr("stop_pct") /\ text[from + 16] = Punct(":")
    /\ text[from + 17].t = "number" /\ text[from + 18] = Punct("}")

MemberAt(text, from) ==
    [symbol |-> text[from].v, qty |-> text[from + 5].v,
     entry_price |-> text[from + 9].v, entry_time |-> text[from + 13].v,
     stop_pct |-> text[from + 17].v]

\* dict[key] = value: a key the dict has keeps its place.
Put(data, e) ==
    IF HasKey(data, e.symbol)
    THEN [i \in 1..Len(data) |-> IF data[i].symbol = e.symbol THEN e ELSE data[i]]
    ELSE Append(data, e)

\* The members parsed from offset from on, put into data one by one; a
\* text that is not a document raises.
RECURSIVE Members(_, _, _)
Members(text, from, data) ==
    IF ~IsMember(text, from) THEN Raise("JSONDecodeError")
    ELSE LET read == Put(data, MemberAt(text, from))
         IN  IF from + 19 = Len(text) /\ text[from + 19] = Punct("}")
             THEN [value |-> read]
             ELSE IF from + 19 < Len(text) /\ text[from + 19] = Punct(",")
             THEN Members(text, from + 20, read)
             ELSE Raise("JSONDecodeError")

\* json.load(f) on a tracker document: the value read, or the exception.
loads(text) ==
    IF Len(text) < 2 \/ text[1] # Punct("{") THEN Raise("JSONDecodeError")
    ELSE IF Len(text) = 2
    THEN IF text[2] = Punct("}") THEN [value |-> <<>>] ELSE Raise("JSONDecodeError")
    ELSE Members(text, 2, <<>>)

\* position_tracker.load: {} for a missing file and for one that does not
\* parse.
load(file) ==
    IF ~file.exists THEN <<>>
    ELSE LET read == loads(file.text)
         IN  IF Raises(read) THEN <<>> ELSE read.value

\* position_tracker.add and remove on the file.
add(file, symbol, qty, entry_price, stop_pct, now) ==
    save(add_tracked(load(file), symbol, qty, entry_price, stop_pct, now))
remove(file, symbol) == save(remove_tracked(load(file), symbol))

\* The map with the entry of key set, and with key deleted.
MapPut(map, key, entry) ==
    [k \in DOMAIN map \cup {key} |-> IF k = key THEN entry ELSE map[k]]
MapDelete(map, key) == [k \in DOMAIN map \ {key} |-> map[k]]

\* The map a document stands for.
AsMap(data) ==
    [k \in {data[i].symbol : i \in 1..Len(data)} |->
        LET e == CHOOSE x \in {data[i] : i \in 1..Len(data)} : x.symbol = k
        IN  [qty |-> e.qty, entry_price |-> e.entry_price,
             entry_time |-> e.entry_time, stop_pct |-> e.stop_pct]]

\* A position the program tracked before.
TrackedBefore ==
    <<[symbol |-> "SPY", qty |-> 199, entry_price |-> R(502, 5), entry_time |-> 9,
       stop_pct |-> R(3, 2)]>>

\* No file yet, the file of an earlier run, or a file cut short while it
\* was written.
TrackerFiles ==
    {[exists |-> FALSE, text |-> <<>>],
     save(TrackedBefore),
     [exists |-> TRUE, text |-> SubSeq(dumps(TrackedBefore), 1, 7)]}

TrackerInit ==
    /\ config = DefaultConfig
    /\ FreshEngine
    /\ broker = None
    /\ loop = None
    /\ inp = None
    /\ tracker \in TrackerFiles
    /\ call = [op |-> "none", map |-> AsMap(load(tracker)), before |-> tracker]

TrackerAdd ==
    /\ \E symbol \in {"spy", "SPY", "QQQ"}, entry_price \in {R(100, 1), R(201, 2)},
          now \in {10, 11} :
          /\ tracker' = add(tracker, symbol, 10, entry_price, R(3, 2), now)
          /\ call' = [op |-> "add", symbol |-> symbol, before |-> tracker,
                      map |-> MapPut(call.map, Upper(symbol),
                                     [qty |-> 10, entry_price |-> entry_price,
                                      entry_time |-> now, stop_pct |-> R(3, 2)])]
    /\ UNCHANGED <<config, portfolio_risk, execution, pdt, broker, loop, inp>>

TrackerRemove ==
    /\ \E symbol \in {"spy", "SPY", "QQQ"} :
          /\ tracker' = remove(tracker, symbol)
          /\ call' = [op |-> "remove", symbol |-> symbol, before |-> tracker,
                      map |-> MapDelete(call.map, Upper(symbol))]
    /\ UNCHANGED <<config, portfolio_risk, execution, pdt, broker, loop, inp>>

TrackerNext ==
    \/ TrackerAdd
    \/ TrackerRemove

SpecTracker == TrackerInit /\ [][TrackerNext]_vars

-----------------------------------------------------------------------------
(* SpecSync: passes of the control loop that start from a tracker file and *)
(* a broker account that need not agree, as after a restart.               *)

MaxSyncPasses == 1

\* The tracker of an earlier run: empty, SPY, or SPY and QQQ, entered on day
\* 5 at 95 with a stop of 2%.
SyncTrackers ==
    LET old(symbol) == [symbol |-> symbol, qty |-> 100, entry_price |-> R(95, 1),
                        entry_time |-> 5, stop_pct |-> R(2, 1)]
    IN  {<<>>, <<old("SPY")>>, <<old("SPY"), old("QQQ")>>}

\* The account: flat, long SPY, long SPY and QQQ, or short QQQ.
SyncPositions ==
    {<<>>,
     <<Position("SPY", 199, R(502, 5))>>,
     <<Position("SPY", 199, R(502, 5)), Position("QQQ", 50, R(502, 5))>>,
     <<Position("QQQ", -50, R(502, 5))>>}

SyncInit ==
    /\ config = LoopConfig
    /\ FreshEngine
    /\ broker \in [equity : {R(100000, 1)}, buying_power : {R(200000, 1)},
                   positions : SyncPositions, orders : {<<>>}]
    /\ tracker \in SyncTrackers
    /\ loop = [dt |-> DateTime(10, 600), running |-> TRUE, passes |-> 0]
    /\ inp = None
    /\ call = NoCall

\* main, lines 41-159: one pass of the while loop and the sleep after it.
SyncPass ==
    /\ loop.running
    /\ loop.passes < MaxSyncPasses
    /\ \E env \in PassEnvs :
          \E r \in {Pass(EngineState(portfolio_risk, execution, pdt), broker, tracker,
                         env, loop.dt)} :
              /\ portfolio_risk' = r.acc.engine.portfolio_risk
              /\ pdt' = r.acc.engine.pdt
              /\ tracker' = r.acc.tracker
              /\ broker' = [broker EXCEPT !.orders = r.acc.orders]
              /\ loop' = [dt |-> IF r.running
                                 THEN DateTime(loop.dt.date,
                                               loop.dt.time + config.check_interval_minutes)
                                 ELSE loop.dt,
                          running |-> r.running, passes |-> loop.passes + 1]
              /\ call' = [op |-> "pass", dt |-> loop.dt, events |-> r.acc.events,
                          before |-> tracker, positions |-> get_positions(broker),
                          synced |-> r.acc.synced, gates |-> r.acc.gates]
    /\ UNCHANGED <<config, execution, inp>>

SyncNext ==
    \/ SyncPass
    \/ BrokerFill

SpecSync == SyncInit /\ [][SyncNext]_vars

-----------------------------------------------------------------------------
(* SpecStop: passes of the control loop on an account whose equity moves   *)
(* between the passes while a position is held and tracked.                *)

MaxStopPasses == 2

StopInit ==
    /\ config = LoopConfig
    /\ FreshEngine
    /\ broker = [equity |-> R(100000, 1), buying_power |-> R(200000, 1),
                 positions |-> <<Position("SPY", 199, R(502, 5))>>, orders |-> <<>>]
    /\ tracker \in {<<>>,
                    <<[symbol |-> "SPY", qty |-> 199, entry_price |-> R(502, 5),
                       entry_time |-> 9, stop_pct |-> R(3, 2)]>>}
    /\ loop = [dt |-> DateTime(10, 600), running |-> TRUE, passes |-> 0]
    /\ inp = None
    /\ call = NoCall

\* main, lines 41-161: one pass of the while loop and the sleep after it.
StopPass ==
    /\ loop.running
    /\ loop.passes < MaxStopPasses
    /\ \E env \in PassEnvs :
          \E r \in {Pass(EngineState(portfolio_risk, execution, pdt), broker, tracker,
                         env, loop.dt)} :
              /\ portfolio_risk' = r.acc.engine.portfolio_risk
              /\ pdt' = r.acc.engine.pdt
              /\ tracker' = r.acc.tracker
              /\ broker' = [broker EXCEPT !.orders = r.acc.orders]
              /\ loop' = [dt |-> IF r.running
                                 THEN DateTime(loop.dt.date,
                                               loop.dt.time + config.check_interval_minutes)
                                 ELSE loop.dt,
                          running |-> r.running, passes |-> loop.passes + 1]
              /\ call' = [op |-> "pass", dt |-> loop.dt, events |-> r.acc.events,
                          before |-> tracker, seen |-> r.acc.seen,
                          equity |-> broker.equity]
    /\ UNCHANGED <<config, execution, inp>>

\* During the sleep the market moves the value of the account: get_equity
\* of the next pass returns 100000, 95000 or 89000.
EquityMoves ==
    /\ loop.running
    /\ call.op = "pass"
    /\ \E equity \in {R(100000, 1), R(95000, 1), R(89000, 1)} :
          /\ equity # broker.equity
          /\ broker' = [broker EXCEPT !.equity = equity]
    /\ call' = [op |-> "market"]
    /\ UNCHANGED <<config, portfolio_risk, execution, pdt, tracker, loop, inp>>

StopNext ==
    \/ StopPass
    \/ EquityMoves
    \/ BrokerFill

SpecStop == StopInit /\ [][StopNext]_vars

-----------------------------------------------------------------------------
(* SpecMacro: MacroEventBlackout.check asked about times of three days,    *)
(* under configurations with a blackout date and with blackout windows.    *)

\* A window of day 10 from 10:00 to 11:00, and one from 22:00 to 02:00.
DayWindow == [date |-> 10, start |-> 600, end |-> 660]
NightWindow == [date |-> 10, start |-> 1320, end |-> 120]

MacroConfigs ==
    {[DefaultConfig EXCEPT !.macro_enabled = enabled, !.blackout_dates = dates,
                           !.blackout_windows = windows] :
        enabled \in BOOLEAN, dates \in {{}, {12}},
        windows \in {<<>>, <<DayWindow>>, <<NightWindow>>, <<DayWindow, NightWindow>>}}

MacroTimes == {0, 60, 119, 120, 599, 600, 659, 660, 1319, 1320, 1439}

MacroInit ==
    /\ config \in MacroConfigs
    /\ FreshEngine
    /\ NoLoop
    /\ inp = None
    /\ call = NoCall

\* MacroEventBlackout.check
MacroCheck ==
    /\ \E date \in {10, 11, 12}, time \in MacroTimes :
          call' = [op |-> "macro_blackout_check", dt |-> DateTime(date, time),
                   ret |-> macro_blackout_check(DateTime(date, time))]
    /\ UNCHANGED <<config, portfolio_risk, execution, pdt, broker, tracker, loop, inp>>

SpecMacro == MacroInit /\ [][MacroCheck]_vars

-----------------------------------------------------------------------------
(* SpecEntry: generate_entry of a strategy built from a strategy section   *)
(* of the configuration, applied to short frames of daily bars.            *)

\* str.strip().lower() on the spellings of player_focus that are used here.
StripLower(s) == IF s = " Retail " THEN "retail" ELSE s

\* Variant of TrendFollowingStrategy: the retail overrides are not applied.
TrendFollowingStrategy_NoRetail(strat) ==
    [DefaultConfig EXCEPT
        !.player_focus = StripLower(strat.player_focus),
        !.ma_fast = strat.ma_fast,
        !.ma_slow = strat.ma_slow,
        !.pullback_touch_ma_fast = strat.pullback_touch_ma_fast,
        !.atr_period = strat.volatility_filter_atr_period,
        !.max_atr_pct_for_entry = strat.max_atr_pct_for_entry,
        !.time_bars_exit = strat.time_bars_exit]

\* TrendFollowingStrategy.__init__: the fields the strategy keeps of the
\* strategy section strat (trend_following, retail and exits flattened).
TrendFollowingStrategy(strat) ==
    LET player_focus == StripLower(strat.player_focus)
        retail == player_focus = "retail"
    IN  [DefaultConfig EXCEPT
            !.player_focus = player_focus,
            !.ma_fast = IF retail THEN strat.retail_ma_fast ELSE strat.ma_fast,
            !.ma_slow = IF retail THEN strat.retail_ma_slow ELSE strat.ma_slow,
            !.pullback_touch_ma_fast = strat.pullback_touch_ma_fast,
            !.atr_period = strat.volatility_filter_atr_period,
            !.max_atr_pct_for_entry = strat.max_atr_pct_for_entry,
            !.time_bars_exit = IF retail THEN strat.retail_time_bars_exit
                               ELSE strat.time_bars_exit]

\* Strategy sections: averages over 2 and 4 bars, 2 and 3 for retail.
EntryStrategies ==
    {[player_focus |-> focus, ma_fast |-> 2, ma_slow |-> 4,
      retail_ma_fast |-> 2, retail_ma_slow |-> 3,
      time_bars_exit |-> 20, retail_time_bars_exit |-> 10,
      pullback_touch_ma_fast |-> touch,
      volatility_filter_atr_period |-> 2,
      max_atr_pct_for_entry |-> R(3, 2)] :
        focus \in {"neutral", "institutional", "retail", " Retail "},
        touch \in BOOLEAN}

EntryCloses == {R(100, 1), R(502, 5), R(102, 1)}

\* A daily bar closing at close with a range of one; a bar of a day without
\* a range has its high and low missing.
DayBar(close, missing) ==
    IF missing THEN Bar(close, NaN, NaN, close, R(1000, 1))
    ELSE Bar(close, RAdd(close, R(1, 2)), RSub(close, R(1, 2)), close, R(1000, 1))

\* Frames of 2 to 4 bars; at most the last bar has no range.
EntryFrames ==
    UNION {{[i \in 1..n |-> DayBar(closes[i], missing /\ i = n)] :
                closes \in [1..n -> EntryCloses], missing \in BOOLEAN} :
           n \in 2..4}

EntryInputs ==
    [strategy : EntryStrategies,
     ohlcv_df : EntryFrames,
     spread_pct : {None, R(5, 100), R(30, 100)},
     atr_multiple : {None, R(1, 1), R(4, 1)}]

EntryInit ==
    /\ inp \in EntryInputs
    /\ config = TrendFollowingStrategy(inp.strategy)
    /\ FreshEngine
    /\ NoLoop
    /\ call = NoCall

\* TrendFollowingStrategy.generate_entry
EntryGenerate ==
    /\ call = NoCall
    /\ call' = [op |-> "generate_entry",
                ret |-> generate_entry("SPY", inp.ohlcv_df, inp.spread_pct,
                                       inp.atr_multiple)]
    /\ UNCHANGED <<config, portfolio_risk, execution, pdt, broker, tracker, loop, inp>>

SpecEntry == EntryInit /\ [][EntryGenerate]_vars

-----------------------------------------------------------------------------
(* SpecHistory: record_day_trade called with dates that never go back,     *)
(* past the 20 entries the list keeps, next to the untruncated history of  *)
(* the calls (inp.history, which the program does not keep).               *)

MaxHistory == 22

HistoryDates == {1, 9, 10}
\* Day 10 has days 9 and 10 in its window, day 17 only day 10, day 18 none.
HistoryToday == {10, 17, 18}

LastDate(dates) == IF dates = <<>> THEN 0 ELSE dates[Len(dates)]

HistoryInit ==
    /\ config = DefaultConfig
    /\ \E equity \in {R(20000, 1), R(30000, 1)} :
          pdt = pdt_update_equity(FreshPDT, equity)
    /\ inp = [history |-> <<>>]
    /\ call = NoCall
    /\ portfolio_risk = FreshPortfolioRisk
    /\ execution = FreshExecution
    /\ NoLoop

\* ComplianceManager.record_day_trade, on a date not before the last one.
HistoryRecordDayTrade ==
    /\ Len(inp.history) < MaxHistory
    /\ \E d \in HistoryDates :
          /\ d >= LastDate(inp.history)
          /\ pdt' = record_day_trade(pdt, d)
          /\ inp' = [history |-> Append(inp.history, d)]
          /\ call' = [op |-> "record_day_trade", trade_date |-> d]
    /\ UNCHANGED <<config, portfolio_risk, execution, broker, tracker, loop>>

\* ComplianceManager.can_day_trade, on a day not before the last day trade.
HistoryCanDayTrade ==
    /\ \E today \in HistoryToday :
          /\ today >= LastDate(inp.history)
          /\ call' = [op |-> "can_day_trade", trade_date |-> today,
                      ret |-> can_day_trade(pdt, today)]
    /\ UNCHANGED <<config, portfolio_risk, execution, pdt, inp, broker, tracker, loop>>

HistoryNext ==
    \/ HistoryRecordDayTrade
    \/ HistoryCanDayTrade

SpecHistory == HistoryInit /\ [][HistoryNext]_vars

-----------------------------------------------------------------------------
(* Properties of size_position (SpecSizer).                                *)

SizerDone == call.op = "size_position"
SizerAccepted == SizerDone /\ call.ret.shares > 0

\* What the arguments say, independently of the sizer's own result.
InRiskAmount == RMul(inp.account_equity, RDiv(config.risk_per_trade_pct, Hundred))
InRiskPerShare == RMul(inp.price, RDiv(inp.stop_distance_pct, Hundred))
InMaxNotional ==
    RMul(inp.account_equity, RDiv(config.max_exposure_per_symbol_pct, Hundred))
InHighVol ==
    /\ config.high_vol_enabled
    /\ inp.atr_pct # None
    /\ RGt(inp.atr_pct, config.high_vol_atr_threshold)
\* The exposure cap activates: the risk-sized notional is above max_notional.
InCapActive ==
    RGt(RMul(RFromInt(RInt(RDiv(InRiskAmount, InRiskPerShare))), inp.price),
        InMaxNotional)
InSector ==
    IF inp.symbol_sector # None /\ inp.symbol \in DOMAIN inp.symbol_sector
    THEN inp.symbol_sector[inp.symbol]
    ELSE "unknown"
InSectorPct ==
    IF InSector \in DOMAIN inp.sector_exposure_pct
    THEN inp.sector_exposure_pct[InSector]
    ELSE Zero

\* C5: every accepted sizing (shares > 0) has
\* shares * price <= equity * max_exposure_per_symbol_pct / 100, for every
\* input and configuration, also after the high-vol step.
C5_SymbolExposureCap ==
    SizerAccepted =>
        RLe(RMul(RFromInt(call.ret.shares), inp.price), InMaxNotional)

\* C6: every accepted sizing has sector_exposure_pct[sector] +
\* notional / equity * 100 <= max_exposure_per_sector_pct, the sector being
\* symbol_sector[symbol] or "unknown"; a sector rejection has shares = 0.
C6_SectorCap ==
    /\ SizerAccepted =>
           /\ inp.account_equity # Zero
           /\ RLe(RAdd(InSectorPct,
                       RMul(RDiv(call.ret.notional, inp.account_equity), Hundred)),
                  config.max_exposure_per_sector_pct)
    /\ (SizerDone /\ call.ret.reject_reason = "sector would exceed cap") =>
           call.ret.shares = 0

\* C6 witness: an accepted sizing of a symbol without a sector while the
\* "unknown" sector already carries exposure.
C6_Witness ==
    /\ SizerAccepted
    /\ InSector = "unknown"
    /\ RGt(InSectorPct, Zero)

\* C7: an accepted sizing without the exposure cap activating and without
\* high-vol reduction risks at most the risk budget, and less than one
\* share's risk below it.
C7_RiskAmountIdentity ==
    (SizerAccepted /\ ~InHighVol /\ ~InCapActive) =>
        LET taken == RMul(RFromInt(call.ret.shares), InRiskPerShare)
        IN  /\ RLe(taken, InRiskAmount)
            /\ RLt(RSub(InRiskAmount, taken), InRiskPerShare)

\* C7 witness: such a sizing whose risk is strictly below the budget.
C7_Witness ==
    /\ SizerAccepted /\ ~InHighVol /\ ~InCapActive
    /\ RLt(RMul(RFromInt(call.ret.shares), InRiskPerShare), InRiskAmount)

\* C8: shares = 0 iff reject_reason is set; a rejected result is all zero;
\* an accepted one has shares >= 1 and non-negative notional, risk_amount
\* and risk_pct.
C8_ResultShape ==
    SizerDone =>
        LET r == call.ret
        IN  /\ (r.shares = 0) <=> (r.reject_reason # NoneStr)
            /\ r.reject_reason # NoneStr =>
                   /\ r.shares = 0 /\ r.notional = Zero
                   /\ r.risk_amount = Zero /\ r.risk_pct = Zero
            /\ r.reject_reason = NoneStr =>
                   /\ r.shares >= 1 /\ RGe(r.notional, Zero)
                   /\ RGe(r.risk_amount, Zero) /\ RGe(r.risk_pct, Zero)

\* C8 witness: an accepted sizing that the high-vol step reduced to the
\* floor of one share.
C8_Witness ==
    /\ SizerAccepted /\ InHighVol
    /\ config.high_vol_size_multiplier = Zero
    /\ call.ret.shares = 1

-----------------------------------------------------------------------------
(* Properties of run_entry_gates (SpecGates).                              *)

GateDone == call.op \in {"run_entry_gates", "submit_order"} /\ ~Raises(call.decision)
GateAllowed == GateDone /\ call.decision.allowed

\* What each gate answers on the arguments a and the engine state st, asked
\* on its own.
EntryOf(a) == generate_entry(a.symbol, a.ohlcv_df, a.spread_pct, a.atr_multiple)
SizingOf(a) ==
    size_position(a.account_equity, LastClose(a.ohlcv_df), EntryOf(a).stop_pct,
        a.symbol, a.current_positions, a.sector_exposure_pct, a.symbol_sector,
        a.atr_multiple)
RiskOf(st, a) == can_trade(st.portfolio_risk, a.account_equity, a.symbol, a.dt.date)

Vetoes(k, st, a) ==
    LET entry == EntryOf(a)
        sizing == size_position(a.account_equity, LastClose(a.ohlcv_df), entry.stop_pct,
                      a.symbol, a.current_positions, a.sector_exposure_pct,
                      a.symbol_sector, a.atr_multiple)
    IN  CASE k = 1 -> ~is_trading_allowed(a.dt)
          [] k = 2 -> ~macro_blackout_check(a.dt).allowed
          [] k = 3 -> ~is_eligible(a.symbol)
          [] k = 4 -> ~earnings_blackout_check(a.symbol, a.dt).allowed
          [] k = 5 -> ~market_quality_check(a.spread_pct, a.volume_atr_ratio,
                                            a.atr_multiple).allowed
          [] k = 6 -> ~can_trade_spread(a.spread_pct).allowed
          [] k = 7 -> ~volatility_dnt_check(a.atr_multiple, a.spread_pct).allowed
          [] k = 8 -> should_block_strategy(st.execution)
          [] k = 9 -> ~RiskOf(st, a).allowed
          [] k = 10 -> ~can_day_trade(st.pdt, a.dt.date).allowed
          [] k = 11 -> entry = None
          [] k = 12 -> entry # None /\ sizing.reject_reason # NoneStr
          [] k = 13 -> /\ entry # None
                       /\ would_exceed_max_open_risk(
                              total_open_risk_pct(a.account_equity, a.current_positions),
                              entry.stop_pct, sizing.risk_pct)
          [] k = 14 -> /\ entry # None
                       /\ build_order(a.symbol, entry.side, sizing.shares,
                              LastClose(a.ohlcv_df), a.spread_pct, DefaultTick) = None

ReasonOf(k, st, a) ==
    CASE k = 1 -> <<"market closed or session not tradeable">>
      [] k = 2 -> macro_blackout_check(a.dt).reason
      [] k = 3 -> <<"symbol", a.symbol, "not in universe or liquidity filter">>
      [] k = 4 -> earnings_blackout_check(a.symbol, a.dt).reason
      [] k = 5 -> <<"market_quality:">> \o
                  market_quality_check(a.spread_pct, a.volume_atr_ratio,
                                       a.atr_multiple).reason
      [] k = 6 -> can_trade_spread(a.spread_pct).reason
      [] k = 7 -> volatility_dnt_check(a.atr_multiple, a.spread_pct).reason
      [] k = 8 -> <<"strategy blocked: avg slippage exceeded threshold">>
      [] k = 9 -> RiskOf(st, a).reason
      [] k = 10 -> can_day_trade(st.pdt, a.dt.date).reason
      [] k = 11 -> <<"no entry signal">>
      [] k = 12 -> <<SizingOf(a).reject_reason>>
      [] k = 13 -> <<"would exceed max open risk">>
      [] k = 14 -> <<"execution: order build failed (spread?)">>

\* The same on the arguments of the call and the state it started from.
GateStart == EngineState(call.pre, execution, pdt)
GateEntry == EntryOf(inp)
GateSizing == SizingOf(inp)
GateRisk == RiskOf(GateStart, inp)
GateVetoes(k) == Vetoes(k, GateStart, inp)
GateReason(k) == ReasonOf(k, GateStart, inp)

VetoingGates == {k \in 1..14 : GateVetoes(k)}
First(gates) == CHOOSE k \in gates : \A j \in gates : k <= j

\* C1: run_entry_gates returns at the first gate of the fixed order that
\* vetoes: whenever some gates would veto, the decision is a refusal with
\* the reason of the earliest of them and carries no order; a veto before
\* the portfolio-risk gate leaves the portfolio-risk state untouched (no
\* later gate ran); and the decision is allowed only when no gate vetoes.
C1_FirstVetoReturns ==
    GateDone =>
        LET vetoing == VetoingGates
        IN  IF vetoing = {} THEN call.decision.allowed
            ELSE LET first == First(vetoing)
                 IN  /\ ~call.decision.allowed
                     /\ call.decision.reason = GateReason(first)
                     /\ call.decision.order_request = None
                     /\ first < 9 => portfolio_risk = call.pre

\* Several gates veto at once (macro blackout, universe and portfolio
\* risk) and the decision carries the macro reason.
C1_Witness ==
    /\ GateDone
    /\ ~GateVetoes(1) /\ GateVetoes(2) /\ GateVetoes(3) /\ GateVetoes(9)
    /\ call.decision.reason = <<"macro blackout date">>

\* C2: every allowed decision keeps the open risk of current_positions plus
\* the new trade's risk_pct within max_open_risk_pct.
C2_OpenRiskCapped ==
    GateAllowed =>
        RLe(RAdd(total_open_risk_pct(inp.account_equity, inp.current_positions),
                 call.decision.position_sizing.risk_pct),
            config.max_open_risk_pct)

\* C3: an allowed entry with prefer_limit_orders is priced as a buy, the
\* limit one offset below mid, and the broker adapter submits it on the buy
\* side.
C3_EntryIsBuy ==
    (call.op = "submit_order" /\ config.prefer_limit_orders) =>
        /\ call.decision.order_request.limit_price =
               RRound2(RSub(LastClose(inp.ohlcv_df),
                            RMul(RFromInt(config.limit_order_offset_ticks), DefaultTick)))
        /\ call.request.side = "BUY"

-----------------------------------------------------------------------------
(* Properties of the gates one by one (SpecIsolation).                     *)

\* On st and a, gate k vetoes, every earlier gate passes, and the decision
\* of run_entry_gates is a refusal with the reason of gate k.
IsolatedAt(k, st, a) ==
    /\ \A j \in 1..(k - 1) : ~Vetoes(j, st, a)
    /\ Vetoes(k, st, a)
    /\ LET d == run_entry_gates(st, a).decision
       IN  ~Raises(d) /\ ~d.allowed /\ d.reason = ReasonOf(k, st, a)

\* The gates that are the vetoing gate for some engine state and input.
IsolatedGates ==
    {k \in 1..14 : \E st \in IsolationStates, a \in IsolationInputs : IsolatedAt(k, st, a)}

\* The engine is about to be called, fresh, with the baseline input.
AtBaseline == call = NoCall /\ inp = IsolationBaseline /\ FreshEngine

\* C25: the baseline call is allowed, and for each of the 14 gates there is
\* an engine state and an input on which all earlier gates pass and that
\* gate is the one that vetoes, the execution spread gate (6) and the
\* order-build gate (14) included.
C25_GateIsolation ==
    AtBaseline =>
        /\ run_entry_gates(EngineState(portfolio_risk, execution, pdt), inp).decision.allowed
        /\ IsolatedGates = 1..14

-----------------------------------------------------------------------------
(* Properties of the portfolio-risk ledger (SpecRisk).                     *)

\* The last operation was check_daily_reset or can_trade, on a stopped
\* ledger, with a date that is not later than last_trade_date.
StoppedAndNotLater ==
    /\ call.op \in {"check_daily_reset", "can_trade"}
    /\ call.pre.trading_stopped_for_day
    /\ call.pre.last_trade_date # <<>>
    /\ call.today <= call.pre.last_trade_date[1]

\* C10: once trading_stopped_for_day is set, a check_daily_reset or
\* can_trade call with the same or an earlier date than last_trade_date
\* does not re-enable trading: the latch stays set and can_trade refuses.
C10_LatchHoldsUntilLaterDate ==
    StoppedAndNotLater =>
        /\ portfolio_risk.trading_stopped_for_day
        /\ call.op = "can_trade" => ~call.ret.allowed

\* The ledger can_trade started from, after the daily reset of line 65,
\* and the drawdown of the call.
LedgerToday == check_daily_reset(call.pre, call.today)
LedgerDrawdown == current_drawdown_pct(call.pre, call.equity)

\* The checks of can_trade other than the safe-mode and the max-drawdown
\* check, asked on their own.
OtherChecksVeto ==
    \/ LedgerToday.trading_stopped_for_day
    \/ RLe(LedgerToday.daily_pnl_pct, config.daily_loss_limit_pct)
    \/ LedgerToday.daily_trade_count >= config.max_trades_per_day
    \/ Get(LedgerToday.daily_trades_per_symbol, call.symbol, 0)
           >= config.max_trades_per_symbol_per_day

SafeModeVeto == ~call.ret.allowed /\ call.ret.reason[1] = "safe_mode: drawdown"

\* C11: a can_trade call whose drawdown is at or below max_drawdown_pct,
\* with the earlier checks passing, sets safe_mode and vetoes; with
\* safe_mode set a call whose drawdown is at or below recovery_criteria_pct
\* (equality included) is vetoed for safe mode, and a call whose drawdown is
\* strictly above it is allowed when no other check vetoes.
C11_SafeModeLatch ==
    call.op = "can_trade" =>
        /\ (call.pre.safe_mode /\ RLe(LedgerDrawdown, config.recovery_criteria_pct))
               => SafeModeVeto /\ portfolio_risk.safe_mode
        /\ (/\ ~call.pre.safe_mode
            /\ ~LedgerToday.trading_stopped_for_day
            /\ ~RLe(LedgerToday.daily_pnl_pct, config.daily_loss_limit_pct)
            /\ RLe(LedgerDrawdown, config.max_drawdown_pct)
            /\ config.safe_mode_after_max_dd)
               => /\ ~call.ret.allowed
                  /\ call.ret.reason[1] = "max drawdown"
                  /\ portfolio_risk.safe_mode
        /\ (/\ call.pre.safe_mode
            /\ RGt(LedgerDrawdown, config.recovery_criteria_pct)
            /\ RGt(LedgerDrawdown, config.max_drawdown_pct)
            /\ ~OtherChecksVeto)
               => call.ret.allowed

\* Safe mode is set and the drawdown equals recovery_criteria_pct: vetoed.
C11_Witness ==
    /\ call.op = "can_trade"
    /\ call.pre.safe_mode
    /\ LedgerDrawdown = config.recovery_criteria_pct
    /\ SafeModeVeto

\* A can_trade call in safe mode that saw a drawdown above
\* recovery_criteria_pct and was not vetoed for safe mode.
ObservedRecovery ==
    /\ call.op = "can_trade"
    /\ call.pre.safe_mode
    /\ RGt(LedgerDrawdown, config.recovery_criteria_pct)

\* C12: when a can_trade call in safe mode has seen the drawdown above
\* recovery_criteria_pct, the next can_trade call, with a drawdown above
\* max_drawdown_pct and at or below recovery_criteria_pct, is not vetoed for
\* safe mode.
C12_SafeModeReleased ==
    [][(/\ ObservedRecovery
        /\ call'.op = "can_trade"
        /\ call'.pre = portfolio_risk
        /\ RGt(LedgerDrawdown', config.max_drawdown_pct)
        /\ RLe(LedgerDrawdown', config.recovery_criteria_pct))
          => ~SafeModeVeto']_vars

\* The last operation was one of the two update_equity methods.
EquityUpdated == call.op \in {"update_equity", "engine.update_equity"}

\* C14: update_equity (ledger and engine) and record_trade leave safe_mode
\* and trading_stopped_for_day as they were; update_equity also leaves the
\* daily counters and last_trade_date; check_daily_reset leaves safe_mode.
C14_FlagsNotClearedSilently ==
    /\ (EquityUpdated \/ call.op = "record_trade") =>
           /\ portfolio_risk.safe_mode = call.pre.safe_mode
           /\ portfolio_risk.trading_stopped_for_day = call.pre.trading_stopped_for_day
    /\ EquityUpdated =>
           /\ portfolio_risk.daily_pnl_pct = call.pre.daily_pnl_pct
           /\ portfolio_risk.daily_trade_count = call.pre.daily_trade_count
           /\ portfolio_risk.daily_trades_per_symbol = call.pre.daily_trades_per_symbol
           /\ portfolio_risk.last_trade_date = call.pre.last_trade_date
    /\ call.op = "check_daily_reset" => portfolio_risk.safe_mode = call.pre.safe_mode

\* A trade is recorded on a ledger with both flags set.
C14_Witness ==
    /\ call.op = "record_trade"
    /\ call.pre.safe_mode /\ call.pre.trading_stopped_for_day
    /\ portfolio_risk.safe_mode /\ portfolio_risk.trading_stopped_for_day

\* The equities recorded in the curve.
CurveEquities(state) == {state.equity_curve[i][2] : i \in 1..Len(state.equity_curve)}

\* C15: after update_equity calls on a fresh ledger peak_equity is the
\* largest equity of the curve; no step lowers peak_equity; each
\* update_equity call appends exactly its one point to the curve.
C15_MonotonePeak ==
    /\ [](portfolio_risk.equity_curve # <<>> =>
            /\ portfolio_risk.peak_equity \in CurveEquities(portfolio_risk)
            /\ \A e \in CurveEquities(portfolio_risk) :
                   RLe(e, portfolio_risk.peak_equity))
    /\ [][/\ RGe(portfolio_risk'.peak_equity, portfolio_risk.peak_equity)
          /\ EquityUpdated' =>
                 /\ Len(portfolio_risk'.equity_curve)
                        = Len(portfolio_risk.equity_curve) + 1
                 /\ SubSeq(portfolio_risk'.equity_curve, 1,
                           Len(portfolio_risk.equity_curve))
                        = portfolio_risk.equity_curve
                 /\ portfolio_risk'.equity_curve[Len(portfolio_risk'.equity_curve)][2]
                        = call'.equity]_vars

\* An equity below the peak was recorded and the peak stayed.
C15_Witness ==
    /\ EquityUpdated
    /\ Len(portfolio_risk.equity_curve) = 2
    /\ RLt(call.equity, call.pre.peak_equity)
    /\ portfolio_risk.peak_equity = call.pre.peak_equity

\* C16: with peak_equity > 0 the drawdown can_trade computes from the
\* equity it is handed is never positive.
C16_DrawdownNeverPositive ==
    (call.op = "can_trade" /\ RGt(call.pre.peak_equity, Zero)) =>
        RLe(current_drawdown_pct(portfolio_risk, call.equity), Zero)

\* C17: check_daily_reset with a date other than last_trade_date zeroes
\* daily_pnl_pct and daily_trade_count, empties daily_trades_per_symbol,
\* clears trading_stopped_for_day and sets last_trade_date, leaving the
\* curve and the peak; with last_trade_date it changes nothing, and a
\* can_trade call on that date still counts the trades recorded on it.
C17_DailyReset ==
    /\ call.op = "check_daily_reset" =>
           IF call.pre.last_trade_date # <<call.today>>
           THEN /\ portfolio_risk.daily_pnl_pct = Zero
                /\ portfolio_risk.daily_trade_count = 0
                /\ portfolio_risk.daily_trades_per_symbol = <<>>
                /\ ~portfolio_risk.trading_stopped_for_day
                /\ portfolio_risk.last_trade_date = <<call.today>>
                /\ portfolio_risk.equity_curve = call.pre.equity_curve
                /\ portfolio_risk.peak_equity = call.pre.peak_equity
           ELSE portfolio_risk = call.pre
    /\ (/\ call.op = "can_trade"
        /\ call.pre.last_trade_date = <<call.today>>
        /\ \/ call.pre.daily_trade_count >= config.max_trades_per_day
           \/ Get(call.pre.daily_trades_per_symbol, call.symbol, 0)
                  >= config.max_trades_per_symbol_per_day)
           => ~call.ret.allowed

\* A reset on the date of two recorded trades: nothing changes.
C17_Witness ==
    /\ call.op = "check_daily_reset"
    /\ call.pre.last_trade_date = <<call.today>>
    /\ call.pre.daily_trade_count = 2
    /\ portfolio_risk = call.pre

-----------------------------------------------------------------------------
(* Properties of the slippage circuit-breaker (SpecBreaker).               *)

BreakerVeto ==
    /\ ~call.decision.allowed
    /\ call.decision.reason = <<"strategy blocked: avg slippage exceeded threshold">>

\* C13: once strategy_blocked is set no later step clears it, whatever the
\* running average falls to, and every run_entry_gates call that passes
\* gates 1 to 7 while it is set is vetoed by the circuit-breaker.
C13_BreakerLatches ==
    /\ []((/\ call.op = "run_entry_gates"
           /\ execution.strategy_blocked
           /\ \A k \in 1..7 : ~GateVetoes(k)) => BreakerVeto)
    /\ [][execution.strategy_blocked => execution'.strategy_blocked]_vars

\* Blocked, the average back under the threshold after later fills, and
\* the entry vetoed by the circuit-breaker.
C13_Witness ==
    /\ call.op = "run_entry_gates"
    /\ execution.strategy_blocked
    /\ Len(execution.fill_history) = 3
    /\ RLe(execution.strategy_slippage_bps_avg,
           config.block_strategy_if_slippage_bps_avg_exceeds)
    /\ BreakerVeto

-----------------------------------------------------------------------------
(* Properties of check_exit (SpecExit).                                    *)

ExitReturn ==
    RMul(RDiv(RSub(inp.current_price, inp.entry_price), inp.entry_price), Hundred)

\* The exit conditions in their order, each asked on its own, with the
\* reason it gives.
ExitConditions ==
    << <<RLe(ExitReturn, RSub(Zero, config.stop_loss_pct)), "stop_loss">>,
       <<config.take_profit_pct # Zero /\ RGe(ExitReturn, config.take_profit_pct),
         "take_profit">>,
       <<inp.bars_held >= config.time_bars_exit, "time_bars">>,
       <<inp.spread_pct # None
            /\ RGt(inp.spread_pct, config.kill_switch_max_spread_pct), "kill_switch">>,
       <<inp.atr_multiple # None
            /\ RGt(inp.atr_multiple, config.kill_switch_max_atr_multiple),
         "kill_switch">> >>

Firing == {k \in 1..5 : ExitConditions[k][1]}

\* C18: check_exit returns the reason of the first exit condition that
\* holds in the order stop loss, take profit, time, kill-switch spread,
\* kill-switch ATR, and none exactly when no condition holds.
C18_ExitPriority ==
    call.op = "check_exit" =>
        IF Firing = {} THEN call.ret = None
        ELSE /\ call.ret # None
             /\ call.ret.symbol = inp.symbol
             /\ call.ret.reason = ExitConditions[First(Firing)][2]

\* Stop, target and time fire together and the stop wins.
C18_Witness ==
    /\ call.op = "check_exit"
    /\ {1, 2, 3} \subseteq Firing
    /\ call.ret.reason = "stop_loss"

-----------------------------------------------------------------------------
(* Properties of the calendar (SpecCalendar).                              *)

\* The half-open window from start to end, wrapping midnight when
\* start > end.
Contains(t, start, end) ==
    IF start <= end THEN start <= t /\ t < end ELSE t >= start \/ t < end

\* The sessions in the order they are asked, and those that contain t.
SessionOrder == <<"pre_market", "regular", "after_hours">>
SessionWindowOf(name) ==
    CASE name = "pre_market" -> config.pre_market
      [] name = "regular" -> config.regular
      [] name = "after_hours" -> config.after_hours
SessionsContaining(t) ==
    {i \in 1..3 : Contains(t, SessionWindowOf(SessionOrder[i]).start,
                           SessionWindowOf(SessionOrder[i]).end)}

\* C30: a window contains t iff start <= t < end, or, when start > end,
\* iff t >= start or t < end (20:00-04:00 contains 23:00 and 02:00, not
\* 05:00 and not 04:00); on a holiday every time is closed and not
\* tradeable; otherwise the session is the first of pre-market, regular
\* and after-hours whose window contains the time and trading is allowed
\* as its trade_allowed flag says, and closed and not allowed when none
\* does.
C30_SessionWindows ==
    /\ \A t \in CalendarTimes, name \in {"pre_market", "regular", "after_hours"} :
          LET w == SessionWindowOf(name)
          IN  _in_window(t, w) <=> Contains(t, w.start, w.end)
    /\ LET wrap == Session(1200, 240, TRUE)
       IN  /\ _in_window(1380, wrap) /\ _in_window(120, wrap)
           /\ ~_in_window(300, wrap) /\ ~_in_window(240, wrap)
    /\ call.op = "is_trading_allowed" =>
          LET hits == SessionsContaining(call.dt.time)
          IN  IF call.dt.date \in config.holidays \/ hits = {}
              THEN call.session = "closed" /\ ~call.ret
              ELSE /\ call.session = SessionOrder[First(hits)]
                   /\ call.ret = SessionWindowOf(call.session).trade_allowed

\* 20:30 lies in the wrapped pre-market (tradeable) and in the after-hours
\* window (not tradeable): the pre-market decides.
C30_Witness ==
    /\ call.op = "is_trading_allowed"
    /\ call.dt = DateTime(10, 1230)
    /\ config.pre_market = Session(1200, 240, TRUE)
    /\ config.after_hours = Session(960, 1260, FALSE)
    /\ call.session = "pre_market"
    /\ call.ret

-----------------------------------------------------------------------------
(* Properties of the PDT gate (SpecPdt).                                   *)

PdtApplies == config.pdt_enabled /\ config.margin_account

\* The number of entries of day_trade_dates at or after today - 7 days.
InWindow(dates, today) == Cardinality({i \in DOMAIN dates : dates[i] >= today - 7})

\* C24: can_day_trade allows when PDT is disabled or the account is not a
\* margin account, and when equity >= pdt_min_equity; otherwise it vetoes
\* exactly when three or more entries of day_trade_dates are at or after
\* today - 7 days.  After a veto, raising the equity to the threshold
\* turns it into an allow with day_trade_dates unchanged, and the call
\* leaves the PDT state as it was.
C24_PdtGate ==
    call.op = "can_day_trade" =>
        /\ pdt = call.pre
        /\ ~PdtApplies => call.ret.allowed
        /\ RGe(pdt.equity, config.pdt_min_equity) => call.ret.allowed
        /\ (PdtApplies /\ RLt(pdt.equity, config.pdt_min_equity)) =>
              (~call.ret.allowed <=> InWindow(pdt.day_trade_dates, call.trade_date) >= 3)
        /\ ~call.ret.allowed =>
              LET raised == pdt_update_equity(pdt, config.pdt_min_equity)
              IN  /\ can_day_trade(raised, call.trade_date).allowed
                  /\ raised.day_trade_dates = pdt.day_trade_dates

\* A veto with exactly three day trades in the window, one of them on the
\* cutoff day, and one outside it.
C24_Witness ==
    /\ call.op = "can_day_trade"
    /\ ~call.ret.allowed
    /\ call.trade_date = 11
    /\ Len(pdt.day_trade_dates) = 4
    /\ InWindow(pdt.day_trade_dates, 11) = 3
    /\ \E i \in DOMAIN pdt.day_trade_dates : pdt.day_trade_dates[i] = 4

-----------------------------------------------------------------------------
(* Properties of _with_retry (SpecRetry).                                  *)

RetryDone == call.status # "running"

\* The errors that are retried, told from the source's list on their own.
Transient(e) ==
    e \in {Exception("RemoteDisconnected", ""), Exception("OSError", "Connection aborted")}

\* The attempts before the last one all raised connection errors.
EarlierTransient ==
    \A i \in 1..(call.attempt - 1) : inp.outcomes[i] # Returns /\ Transient(inp.outcomes[i])

\* The log is fn, sleep, fn, ..., with a sleep only between two attempts
\* once the wrapper is done.
AlternatingLog ==
    /\ \A i \in 1..Len(call.log) : call.log[i] = (IF i % 2 = 1 THEN "fn" ELSE "sleep")
    /\ RetryDone /\ call.attempt > 0 => Len(call.log) = 2 * call.attempt - 1
    /\ call.slept = config.api_retry_delay_sec * (Len(call.log) \div 2)

-----------------------------------------------------------------------------
(* Properties of the scenarios (SpecScenario).                             *)

\* The call with a spread of 0.05 in place of its own is allowed.
OtherwiseAllowed ==
    LET d == run_entry_gates(GateStart, [inp EXCEPT !.spread_pct = R(5, 100)]).decision
    IN  ~Raises(d) /\ d.allowed

\* C26: with max_spread_pct = 0.10, a call with spread_pct = 0.20 that is
\* allowed at a spread of 0.05 is refused with a reason that starts with
\* "spread", and the decision carries no position sizing and no order.
C26_SpreadVetoScenario ==
    (/\ GateDone
     /\ config.mq_max_spread_pct = R(10, 100)
     /\ inp.spread_pct = R(20, 100)
     /\ OtherwiseAllowed) =>
        /\ ~call.decision.allowed
        /\ Head(call.decision.reason) = "spread"
        /\ call.decision.position_sizing = None
        /\ call.decision.order_request = None

\* C27: under the default configuration, with an equity of 100000, no
\* open positions and an input that no gate vetoes, the decision is
\* allowed, its order is a LIMIT order for a positive quantity, and the
\* risk_pct of its sizing is the configured 0.5 to within a tenth of it.
C27_HappyPathScenario ==
    (/\ GateDone
     /\ config = ScenarioDefault
     /\ inp.account_equity = R(100000, 1)
     /\ inp.current_positions = <<>>
     /\ VetoingGates = {}) =>
        /\ call.decision.allowed
        /\ call.decision.order_request.order_type = "LIMIT"
        /\ call.decision.order_request.quantity > 0
        /\ RLe(RAbs(RSub(call.decision.position_sizing.risk_pct,
                         config.risk_per_trade_pct)),
               R(5, 100))

\* C28: run_entry_gates returns a decision and never raises; a refusal
\* carries a non-empty reason and no order, an allowed decision carries an
\* order, an entry signal and a sizing with shares > 0.
C28_ErrorsAreValues ==
    call.op \in {"run_entry_gates", "submit_order"} =>
        /\ ~Raises(call.decision)
        /\ IF call.decision.allowed
           THEN /\ call.decision.order_request # None
                /\ call.decision.entry_signal # None
                /\ call.decision.position_sizing # None
                /\ call.decision.position_sizing.shares > 0
           ELSE /\ call.decision.reason # <<>>
                /\ \A i \in DOMAIN call.decision.reason : call.decision.reason[i] # ""
                /\ call.decision.order_request = None

\* The orders built for submission: the order of an allowed entry decision
\* and the sell orders of the exit check.
BuiltOrders ==
    IF call.op \in {"run_entry_gates", "submit_order"}
    THEN IF ~Raises(call.decision) /\ call.decision.allowed
         THEN {call.decision.order_request} ELSE {}
    ELSE IF call.op = "exit"
    THEN {call.orders[i].order : i \in DOMAIN call.orders}
    ELSE {}

\* C29: every order built for submission has quantity > 0, and
\* limit_price > 0 when it is a LIMIT order.
C29_OrdersWellFormed ==
    \A order \in BuiltOrders :
        /\ order.quantity > 0
        /\ order.order_type = "LIMIT" => RGt(order.limit_price, Zero)

\* An entry at a mid of 1.004 with an offset of 200 ticks (2.00) is handed
\* to the broker with a positive limit.
C29_Witness ==
    /\ call.op = "submit_order"
    /\ config.limit_order_offset_ticks = 200
    /\ RLt(call.decision.order_request.expected_price, R(2, 1))
    /\ call.decision.order_request.order_type = "LIMIT"
    /\ call.request.limit_price = call.decision.order_request.limit_price

-----------------------------------------------------------------------------
(* Properties of the control loop (SpecLoop).                              *)

\* The pass submitted a sell order for the symbol in its exit phase.
SoldInPass(symbol) ==
    \E i \in 1..Len(call.events) : call.events[i] = <<"submit_order", symbol, "sell">>

\* C4: after every entry a pass allowed and submitted for a symbol it did
\* not sell in the same pass, the notional already held in the symbol
\* (current_positions) plus the notional of the new entry is at most
\* equity * max_exposure_per_symbol_pct / 100.
C4_ConcentrationAcrossPasses ==
    call.op = "pass" =>
        \A i \in 1..Len(call.entries) :
            ~SoldInPass(call.entries[i].symbol) =>
                RLe(RAdd(call.entries[i].held, call.entries[i].notional),
                    RMul(call.entries[i].account_equity,
                         RDiv(config.max_exposure_per_symbol_pct, Hundred)))

\* The entry orders (the strategy's side is "long") submitted on a date,
\* for any symbol of a set.
EntryOrders(date, symbols) ==
    {i \in 1..Len(broker.orders) :
        /\ broker.orders[i].order.side = "long"
        /\ broker.orders[i].date = date
        /\ broker.orders[i].order.symbol \in symbols}

\* C9: on one date the loop never submits more than max_trades_per_day
\* entry orders, nor more than max_trades_per_symbol_per_day entry orders
\* for one symbol.
C9_TradeCapsEnforced ==
    loop # None =>
        /\ Cardinality(EntryOrders(loop.dt.date, {"SPY", "QQQ"}))
               <= config.max_trades_per_day
        /\ \A symbol \in {"SPY", "QQQ"} :
               Cardinality(EntryOrders(loop.dt.date, {symbol}))
                   <= config.max_trades_per_symbol_per_day

\* The symbols the broker account holds.
HeldAtBroker == {broker.positions[i].symbol : i \in 1..Len(broker.positions)}

\* C19: a pass removes a position the broker still holds from the tracker
\* only after it has submitted a sell order for it.
C19_RemovalFollowsSell ==
    call.op = "pass" =>
        \A i \in 1..Len(call.events) :
            (/\ call.events[i][1] = "remove_tracked"
             /\ call.events[i][2] \in HeldAtBroker)
                => \E j \in 1..(i - 1) :
                      call.events[j] = <<"submit_order", call.events[i][2], "sell">>

\* The events of the exit loop and of the entry loop of a pass.
IsExitEvent(e) ==
    \/ e[1] \in {"check_exit", "remove_tracked"}
    \/ e[1] = "submit_order" /\ e[3] = "sell"
IsEntryEvent(e) ==
    \/ e[1] \in {"run_entry_gates", "add_tracked", "skip"}
    \/ e[1] = "submit_order" /\ e[3] # "sell"

\* C20: within a pass every exit check, sell submission and tracker
\* removal comes before the first entry evaluation; no entry order is
\* submitted before an exit step of the same pass.
C20_ExitsBeforeEntries ==
    call.op = "pass" =>
        \A i, j \in 1..Len(call.events) :
            (IsExitEvent(call.events[i]) /\ IsEntryEvent(call.events[j])) => i < j

\* A pass that sold one position on an exit signal and entered another.
C20_Witness ==
    /\ call.op = "pass"
    /\ \E i, j \in 1..Len(call.events) :
          /\ call.events[i] = <<"submit_order", "SPY", "sell">>
          /\ call.events[j] = <<"submit_order", "QQQ", "long">>

-----------------------------------------------------------------------------
(* Properties of the control loop under failures (SpecFaults).             *)

\* The pass met the failure of an operation of its exit or entry phase.
SymbolFailed ==
    /\ call.op = "pass"
    /\ call.fault # None
    /\ call.fault.kind = "error"
    /\ call.fault.phase \in {"exit", "entry"}
    /\ call.failed # <<>>

Processed(phase, symbol) == \E i \in 1..Len(call.seen) : call.seen[i] = <<phase, symbol>>

\* C21: when a broker or tracker operation fails for one symbol during the
\* exit phase or the entry phase of a pass, the error is logged, every
\* tracked position and every universe symbol is still processed in that
\* pass, and the loop goes on to the next pass.
C21_SymbolFailureIsolated ==
    SymbolFailed =>
        /\ \E i \in 1..Len(call.events) :
               call.events[i] = <<"error", call.fault.phase, call.fault.symbol>>
        /\ \A symbol \in call.tracked : Processed("exit", symbol)
        /\ \A i \in 1..Len(config.symbols) : Processed("entry", config.symbols[i])
        /\ call.halt = "none"
        /\ loop.running

\* The run was stopped by Ctrl-C: in a pass, or in the sleep after it.
StoppedByUser == loop.halt = "KeyboardInterrupt" /\ call.op = "pass"

\* C23: a stop signal takes effect only between passes: when the run was
\* stopped by it, the last pass was complete, and every entry order the
\* pass submitted to the broker has its position in the tracker.
C23_StopOnlyBetweenPasses ==
    StoppedByUser =>
        /\ call.halt = "none"
        /\ \A i \in 1..Len(call.events) :
               (call.events[i][1] = "submit_order" /\ call.events[i][3] # "sell") =>
                   /\ HasKey(tracker, call.events[i][2])
                   /\ \E j \in (i + 1)..Len(call.events) :
                          call.events[j] = <<"add_tracked", call.events[i][2]>>

-----------------------------------------------------------------------------
(* Properties of the fill ledger (SpecFills).                              *)

\* The mean of the slippage of the first n fills of the history.
MeanSlippage(n) ==
    RDiv(SumSeq([i \in 1..n |-> execution.fill_history[i].slippage_bps]), RFromInt(n))

\* The history holds one report per call, in call order.
OneReportPerCall ==
    /\ Len(execution.fill_history) = Len(call.log)
    /\ \A i \in 1..Len(call.log) :
          LET f == execution.fill_history[i]
              a == call.log[i]
          IN  /\ f.symbol = a.symbol /\ f.side = a.side /\ f.quantity = a.quantity
              /\ f.fill_price = a.fill_price /\ f.expected_price = a.expected_price

\* The average is the mean of all fills, and the flag says whether the
\* mean was above the threshold after one of the calls.
MeanAndLatch ==
    /\ call.log # <<>> =>
          execution.strategy_slippage_bps_avg = MeanSlippage(Len(call.log))
    /\ execution.strategy_blocked <=>
          \E n \in 1..Len(call.log) :
              RGt(MeanSlippage(n), config.block_strategy_if_slippage_bps_avg_exceeds)

\* A buy filled above the expected price, or a sell filled below it.
FilledWorse(f) ==
    \/ f.side = "buy" /\ RGt(f.fill_price, f.expected_price)
    \/ f.side = "sell" /\ RLt(f.fill_price, f.expected_price)

-----------------------------------------------------------------------------
(* Properties of the position tracker (SpecTracker).                       *)

\* The keys of the stored document, in its order.
StoredKeys == [i \in 1..Len(load(tracker)) |-> load(tracker)[i].symbol]

\* C32: the tracker is a map keyed by uppercase symbol: after any sequence
\* of add and remove calls the stored document is the map obtained by
\* applying them in order (add sets the entry of the uppercased symbol,
\* remove deletes it or does nothing, every other entry stays as it was),
\* each key is stored once, and saving what was loaded and loading it
\* again returns the same document.
C32_TrackerIsMap ==
    /\ AsMap(load(tracker)) = call.map
    /\ \A i, j \in 1..Len(StoredKeys) : StoredKeys[i] = StoredKeys[j] => i = j
    /\ \A i \in 1..Len(StoredKeys) : StoredKeys[i] = Upper(StoredKeys[i])
    /\ load(save(load(tracker))) = load(tracker)
    /\ call.op # "none" =>
          \A k \in DOMAIN AsMap(load(call.before)) \ {Upper(call.symbol)} :
              /\ k \in DOMAIN AsMap(load(tracker))
              /\ AsMap(load(tracker))[k] = AsMap(load(call.before))[k]

\* An entry added in lower case was replaced under its uppercase key while
\* the entry of the other symbol stayed.
C32_Witness ==
    /\ call.op = "add" /\ call.symbol = "spy"
    /\ DOMAIN call.map = {"SPY", "QQQ"}
    /\ DOMAIN AsMap(load(call.before)) = {"SPY", "QQQ"}
    /\ AsMap(load(tracker)) = call.map
    /\ AsMap(load(call.before))["SPY"].entry_time = 9
    /\ call.map["SPY"].entry_time = 11
    /\ call.map["QQQ"] = AsMap(load(call.before))["QQQ"]

-----------------------------------------------------------------------------
(* Properties of the tracker sync (SpecSync).                              *)

\* The pass reached the sync of lines 67-75: it did not stop at the session
\* check or at the portfolio-risk check.
Synced == call.op = "pass" /\ loop.running

EntryOfSymbol(data, symbol) ==
    CHOOSE e \in {data[i] : i \in 1..Len(data)} : e.symbol = symbol

\* C33: after the sync step of a pass every position the broker reports is
\* tracked; a position the tracker lacked is added with entry_price =
\* cost_basis / qty and the default stop_pct 1.5; an entry that was tracked
\* keeps its entry_price, entry_time and stop_pct; and a tracked symbol the
\* broker does not hold is removed in the exit phase with no order
\* submitted for it.
C33_TrackerReconciled ==
    Synced =>
        /\ \A i \in 1..Len(call.positions) :
              LET p == call.positions[i]
              IN  /\ HasKey(call.synced, p.symbol)
                  /\ (~HasKey(call.before, p.symbol) /\ p.qty # 0) =>
                        LET e == EntryOfSymbol(call.synced, p.symbol)
                        IN  /\ e.entry_price = RDiv(p.cost_basis, RFromInt(p.qty))
                            /\ e.stop_pct = R(3, 2)
                            /\ e.qty = p.qty
        /\ \A i \in 1..Len(call.before) :
              /\ HasKey(call.synced, call.before[i].symbol)
              /\ EntryOfSymbol(call.synced, call.before[i].symbol) = call.before[i]
        /\ \A i \in 1..Len(call.synced) :
              LET symbol == call.synced[i].symbol
              IN  (~\E k \in 1..Len(call.positions) : call.positions[k].symbol = symbol) =>
                      /\ \E j \in 1..Len(call.events) :
                            call.events[j] = <<"remove_tracked", symbol>>
                      /\ \A j \in 1..Len(call.events) :
                            call.events[j] # <<"submit_order", symbol, "sell">>

\* A restart with SPY tracked and SPY and QQQ held: QQQ was added at its
\* cost, SPY kept its entry; and a pass that dropped a symbol not held.
C33_Witness ==
    /\ Synced
    /\ Len(call.before) = 1 /\ Len(call.positions) = 2 /\ Len(call.synced) = 2
    /\ EntryOfSymbol(call.synced, "SPY").entry_price = R(95, 1)
    /\ EntryOfSymbol(call.synced, "QQQ").entry_price = R(502, 5)

\* The symbols the exit phase of the pass submitted a sell order for.
SoldSymbols ==
    {call.events[i][2] : i \in {j \in 1..Len(call.events) :
                                   /\ call.events[j][1] = "submit_order"
                                   /\ call.events[j][3] = "sell"}}

\* C34: a position the exit phase of a pass submitted a sell order for is
\* not in the current_positions that the entry gates of the same pass are
\* given.
C34_ExitsFreeExposure ==
    Synced =>
        \A i \in 1..Len(call.gates) :
            SoldSymbols \cap DOMAIN call.gates[i].current_positions = {}

-----------------------------------------------------------------------------
(* Properties of the pass under a portfolio-risk veto (SpecStop).          *)

\* C35: every pass that begins while the session allows trading evaluates
\* the exit of each tracked position, whatever the portfolio-risk check
\* says about new entries, and the loop goes on to later passes.
C35_ExitsDespiteRiskVeto ==
    (call.op = "pass" /\ is_trading_allowed(call.dt)) =>
        /\ \A i \in 1..Len(call.before) :
              \E j \in 1..Len(call.seen) : call.seen[j] = <<"exit", call.before[i].symbol>>
        /\ loop.running

-----------------------------------------------------------------------------
(* Properties of the order of can_trade's checks (SpecRisk).               *)

\* The call is on a new date: the daily reset comes first.
AskedOnNewDate == call.pre.last_trade_date # <<call.today>>

\* The drawdown of the equity the call was asked with.
AskedDrawdown ==
    IF RLe(call.pre.peak_equity, Zero) THEN Zero
    ELSE RMul(RDiv(RSub(call.equity, call.pre.peak_equity), call.pre.peak_equity),
              Hundred)

\* The six checks after the daily reset, in the order of the claim: which
\* of them the call meets in a vetoing condition.
AskedChecks ==
    << call.pre.safe_mode /\ RLe(AskedDrawdown, config.recovery_criteria_pct),
       ~AskedOnNewDate /\ call.pre.trading_stopped_for_day,
       ~AskedOnNewDate /\ RLe(call.pre.daily_pnl_pct, config.daily_loss_limit_pct),
       RLe(AskedDrawdown, config.max_drawdown_pct) /\ config.safe_mode_after_max_dd,
       ~AskedOnNewDate /\ call.pre.daily_trade_count >= config.max_trades_per_day,
       /\ ~AskedOnNewDate
       /\ Get(call.pre.daily_trades_per_symbol, call.symbol, 0)
              >= config.max_trades_per_symbol_per_day >>

CheckReasons ==
    << "safe_mode: drawdown", "daily loss limit hit; trading stopped for the day",
       "daily loss limit", "max drawdown", "max trades per day",
       "max trades per symbol per day" >>

FirstCheck ==
    IF \E k \in 1..6 : AskedChecks[k]
    THEN CHOOSE k \in 1..6 : AskedChecks[k] /\ \A j \in 1..(k - 1) : ~AskedChecks[j]
    ELSE 0

\* The flags the call set.
StoppedByCall ==
    /\ portfolio_risk.trading_stopped_for_day
    /\ AskedOnNewDate \/ ~call.pre.trading_stopped_for_day
SafeModeByCall == portfolio_risk.safe_mode /\ ~call.pre.safe_mode

\* C36: can_trade applies, after the daily reset, the checks safe mode,
\* trading_stopped_for_day, daily loss limit, max drawdown, daily trade
\* count (>= cap) and per-symbol trade count (>= cap) in this order and
\* returns the first veto; the daily-loss veto alone latches
\* trading_stopped_for_day and the drawdown veto alone latches safe_mode,
\* so a call latches at most one flag, a call that returns true latches
\* none, and with both limits breached trading_stopped_for_day is latched
\* and safe_mode stays unset.
C36_CheckOrder ==
    call.op = "can_trade" =>
        /\ call.ret.allowed <=> FirstCheck = 0
        /\ FirstCheck # 0 => call.ret.reason[1] = CheckReasons[FirstCheck]
        /\ StoppedByCall <=> FirstCheck = 3
        /\ SafeModeByCall <=> FirstCheck = 4
        /\ (AskedChecks[3] /\ AskedChecks[4] /\ FirstCheck = 3) =>
              portfolio_risk.trading_stopped_for_day /\ ~portfolio_risk.safe_mode

\* Both limits breached in one call: the day is stopped, safe mode is not
\* entered.
C36_Witness ==
    /\ call.op = "can_trade"
    /\ AskedChecks[3] /\ AskedChecks[4] /\ FirstCheck = 3
    /\ ~call.ret.allowed
    /\ portfolio_risk.trading_stopped_for_day /\ ~portfolio_risk.safe_mode

-----------------------------------------------------------------------------
(* Properties of the macro blackout (SpecMacro).                           *)

\* The window w as an interval of time: [start, end) on its date, or, with
\* start > end, from start on its date past midnight to end on the next.
InBlackoutWindow(w, dt) ==
    IF w.start <= w.end
    THEN dt.date = w.date /\ w.start <= dt.time /\ dt.time < w.end
    ELSE \/ dt.date = w.date /\ dt.time >= w.start
         \/ dt.date = w.date + 1 /\ dt.time < w.end

\* C37: when enabled, the macro blackout rejects dt iff its date is a
\* blackout date or a configured window contains it, a window being the
\* half-open interval [start, end) on its date, which with start > end
\* runs past midnight; when disabled every dt is allowed.
C37_MacroBlackout ==
    call.op = "macro_blackout_check" =>
        (~call.ret.allowed <=>
            /\ config.macro_enabled
            /\ \/ call.dt.date \in config.blackout_dates
               \/ \E i \in 1..Len(config.blackout_windows) :
                     InBlackoutWindow(config.blackout_windows[i], call.dt))

-----------------------------------------------------------------------------
(* Properties of generate_entry (SpecEntry)                                *)

Emitted == call.op = "generate_entry" /\ call.ret # None /\ ~Raises(call.ret)

EntryRetail == StripLower(inp.strategy.player_focus) = "retail"
EntryMaFast == IF EntryRetail THEN inp.strategy.retail_ma_fast ELSE inp.strategy.ma_fast
EntryMaSlow == IF EntryRetail THEN inp.strategy.retail_ma_slow ELSE inp.strategy.ma_slow
EntryClose == Column(inp.ohlcv_df, "close")
EntryPrice == EntryClose[Len(EntryClose)]
EntryAtrPct == atr_pct_last(inp.ohlcv_df)

\* What every emitted signal satisfies apart from the volatility filter.
EmittedOnlyIf ==
    /\ Len(inp.ohlcv_df) >= EntryMaSlow
    /\ RGt(EntryPrice, RollingMeanLast(EntryClose, EntryMaSlow))
    /\ inp.strategy.pullback_touch_ma_fast =>
          LET ma_f == RollingMeanLast(EntryClose, EntryMaFast)
          IN  RLe(RDiv(RAbs(RSub(EntryPrice, ma_f)), ma_f), R(5, 1000))
    /\ inp.spread_pct # None => RLe(inp.spread_pct, config.kill_switch_max_spread_pct)
    /\ inp.atr_multiple # None =>
          RLe(inp.atr_multiple, config.kill_switch_max_atr_multiple)
    /\ call.ret.side = "long"
    /\ call.ret.stop_pct = config.stop_loss_pct
    /\ call.ret.time_bars_exit = (IF EntryRetail THEN inp.strategy.retail_time_bars_exit
                                  ELSE inp.strategy.time_bars_exit)

-----------------------------------------------------------------------------
(* Properties of the state run_entry_gates leaves (SpecIsolation)          *)

GateCalled == call.op = "run_entry_gates"

\* The engine state the call returned with.
GateAfter == run_entry_gates(GateStart, inp).state

\* One of the eight gates asked before portfolio_risk.can_trade vetoes.
EarlyVeto == \E k \in 1..8 : GateVetoes(k)

\* The ledger was last reset on the date of the call.
SameDate == call.pre.last_trade_date = <<inp.dt.date>>

\* C39: run_entry_gates changes the engine state only through
\* portfolio_risk.can_trade: the state it leaves is the one it found or that
\* one with the ledger can_trade leaves; a veto of a gate before the
\* portfolio-risk gate leaves the whole state as it was; ExecutionState,
\* PDTState, equity_curve and peak_equity are never changed, and
\* daily_trade_count and daily_pnl_pct are not changed by a call on the date
\* of the ledger.
C39_GatesFrame ==
    GateCalled =>
        /\ GateAfter.portfolio_risk = portfolio_risk
        /\ GateAfter \in {GateStart, [GateStart EXCEPT !.portfolio_risk = GateRisk.state]}
        /\ EarlyVeto => GateAfter = GateStart
        /\ GateAfter.execution = GateStart.execution
        /\ GateAfter.pdt = GateStart.pdt
        /\ portfolio_risk.equity_curve = call.pre.equity_curve
        /\ portfolio_risk.peak_equity = call.pre.peak_equity
        /\ SameDate =>
              /\ portfolio_risk.daily_trade_count = call.pre.daily_trade_count
              /\ portfolio_risk.daily_pnl_pct = call.pre.daily_pnl_pct

\* A call on the date of a ledger with a losing trade passes the early gates
\* and is vetoed by can_trade, which stops trading for the day and leaves
\* the count and the loss as they were.
C39_Witness ==
    /\ GateCalled
    /\ SameDate
    /\ ~EarlyVeto
    /\ call.pre.daily_trade_count > 0
    /\ call.pre.equity_curve # <<>>
    /\ pdt.day_trade_dates # <<>>
    /\ portfolio_risk # call.pre
    /\ portfolio_risk.daily_trade_count = call.pre.daily_trade_count

-----------------------------------------------------------------------------
(* Properties of the truncated day-trade list (SpecHistory)                *)

\* The PDTState that would hold every recorded date.
FullHistory == [pdt EXCEPT !.day_trade_dates = inp.history]

Truncated == Len(inp.history) > 20 /\ pdt.day_trade_dates # inp.history

====
